---- MODULE Spec2Model ----
(***************************************************************************)
(* A model of gpt-oss-adapter: the bounded LRU cache of reasoning text     *)
(* (lru_cache.go), and the adapter that injects cached reasoning into chat *)
(* completion requests and extracts it from blocking and streamed backend  *)
(* responses (adapter.go).                                                 *)
(***************************************************************************)
EXTENDS Integers, Sequences, FiniteSets, TLC

VARIABLES
    capacity,   \* LRUCache.capacity
    cache,      \* LRUCache.cache: the keys of the map key -> *list.Element
    list,       \* LRUCache.list: the entries, front (index 1) = most recent
    now,        \* the last value time.Now() returned
    ret,        \* what the last sequential cache call was and returned
    gone,       \* history: the keys a Clear removed that no Put was called with since
    mutex,      \* LRUCache.mutex: the writer holding it (0: none) and the readers
    pc,         \* each concurrent caller's position in the cache method it runs
    call,       \* each concurrent caller's method, arguments and locals
    provider,   \* Adapter.Provider
    exch,       \* each HTTP exchange: its position, the request sent to the backend,
                \* what was last written to the client, the stream's locals
    hist,       \* history: what each exchange's stream has carried so far
    carried,    \* history: per tool-call id, the reasoning of the last response that
                \* carried it in any tool call (dropped when the id is evicted)
    keyed       \* history: per tool-call id, the reasoning of the last response that
                \* the transformer keyed on it (dropped when the id is evicted)

seqVars == <<ret, gone>>
concVars == <<mutex, pc, call>>
adapterVars == <<provider, exch, hist, carried, keyed>>
vars == <<capacity, cache, list, now, ret, gone, mutex, pc, call,
          provider, exch, hist, carried, keyed>>

(***************************************************************************)
(* Bounds of the model.                                                    *)
(***************************************************************************)
MaxCapacity == 2
MaxClock == 5
NumCallers == 2
MaxMessages == 2
MaxLines == 3
MaxReasoningLen == 5

Keys == {"tc1", "tc2", "tc3"}
Contents == {"he", "llo"}
Capacities == (0 - 1) .. MaxCapacity
Callers == 1 .. NumCallers
Exchanges == {"x1", "x2"}
ToolCallIDs == {"tc1", "tc2"}

(***************************************************************************)
(* container/list, as far as the cache uses it.  An element is identified  *)
(* by the key of the entry it holds.                                       *)
(***************************************************************************)
IndexOf(l, key) ==
    IF \E i \in 1 .. Len(l) : l[i].key = key
    THEN CHOOSE i \in 1 .. Len(l) : l[i].key = key /\ \A j \in 1 .. (i - 1) : l[j].key # key
    ELSE 0

RemoveAt(l, i) == SubSeq(l, 1, i - 1) \o SubSeq(l, i + 1, Len(l))

\* list.MoveToFront(elem): no-op when elem is not an element of the list
MoveToFront(l, key) ==
    LET i == IndexOf(l, key)
    IN  IF i = 0 THEN l ELSE <<l[i]>> \o RemoveAt(l, i)

PushFront(l, entry) == <<entry>> \o l

ListKeys(l) == {l[i].key : i \in 1 .. Len(l)}

(***************************************************************************)
(* lru_cache.go                                                            *)
(***************************************************************************)
CacheItem(id, content, lastUsed) == [ID |-> id, Content |-> content, LastUsed |-> lastUsed]

ZeroItem == CacheItem("", "", 0)

cacheEntry(key, item) == [key |-> key, item |-> item]

NewLRUCache(cap) == [capacity |-> cap, cache |-> {}, list |-> <<>>]

\* The entry list with the item of the element holding `key` replaced.
SetItem(l, key, item) ==
    [i \in 1 .. Len(l) |-> IF l[i].key = key THEN cacheEntry(key, item) ELSE l[i]]

\* Get that forgets list.MoveToFront on a hit.
Get_NoMoveToFront(c, key, t) ==
    IF key \in c.cache
    THEN LET i == IndexOf(c.list, key)
             item == [c.list[i].item EXCEPT !.LastUsed = t]
         IN  [c |-> [c EXCEPT !.list = SetItem(c.list, key, item)],
              item |-> item, found |-> TRUE, ticked |-> TRUE]
    ELSE [c |-> c, item |-> ZeroItem, found |-> FALSE, ticked |-> FALSE]

\* Get that takes the entry out of the cache on a hit.
Get_RemovesOnHit(c, key, t) ==
    IF key \in c.cache
    THEN LET i == IndexOf(c.list, key)
             item == [c.list[i].item EXCEPT !.LastUsed = t]
         IN  [c |-> [c EXCEPT !.list = RemoveAt(c.list, i), !.cache = c.cache \ {key}],
              item |-> item, found |-> TRUE, ticked |-> TRUE]
    ELSE [c |-> c, item |-> ZeroItem, found |-> FALSE, ticked |-> FALSE]

\* Get that adds an empty entry for a key it does not find.
Get_MissInserts(c, key, t) ==
    IF key \in c.cache
    THEN LET moved == MoveToFront(c.list, key)
             i == IndexOf(moved, key)
             item == [moved[i].item EXCEPT !.LastUsed = t]
         IN  [c |-> [c EXCEPT !.list = SetItem(moved, key, item)],
              item |-> item, found |-> TRUE, ticked |-> TRUE]
    ELSE [c |-> [c EXCEPT !.list = PushFront(c.list, cacheEntry(key, ZeroItem)),
                          !.cache = c.cache \cup {key}],
          item |-> ZeroItem, found |-> FALSE, ticked |-> FALSE]

\* Get that leaves LastUsed as it is.
Get_KeepsLastUsed(c, key, t) ==
    IF key \in c.cache
    THEN LET moved == MoveToFront(c.list, key)
             i == IndexOf(moved, key)
         IN  [c |-> [c EXCEPT !.list = moved],
              item |-> moved[i].item, found |-> TRUE, ticked |-> TRUE]
    ELSE [c |-> c, item |-> ZeroItem, found |-> FALSE, ticked |-> FALSE]

\* Get(key) with t the value time.Now() returns if it is called.
\* ticked: whether time.Now() was called.
Get(c, key, t) ==
    IF key \in c.cache
    THEN LET moved == MoveToFront(c.list, key)
             i == IndexOf(moved, key)
             item == [moved[i].item EXCEPT !.LastUsed = t]
         IN  [c |-> [c EXCEPT !.list = SetItem(moved, key, item)],
              item |-> item, found |-> TRUE, ticked |-> TRUE]
    ELSE [c |-> c, item |-> ZeroItem, found |-> FALSE, ticked |-> FALSE]

evictLRU(c) ==
    IF Len(c.list) = 0
    THEN c
    ELSE LET back == c.list[Len(c.list)]
         IN  [c EXCEPT !.list = RemoveAt(c.list, Len(c.list)),
                       !.cache = c.cache \ {back.key}]

\* Put that evicts only when the list is longer than the capacity (> for >=).
Put_EvictAboveCapacity(c, key, item, t) ==
    IF c.capacity <= 0
    THEN [c |-> c, ticked |-> FALSE]
    ELSE LET stamped == [item EXCEPT !.LastUsed = t]
         IN  IF key \in c.cache
             THEN [c |-> [c EXCEPT !.list = SetItem(MoveToFront(c.list, key), key, stamped)],
                   ticked |-> TRUE]
             ELSE LET e == IF Len(c.list) > c.capacity THEN evictLRU(c) ELSE c
                  IN  [c |-> [e EXCEPT !.list = PushFront(e.list, cacheEntry(key, stamped)),
                                       !.cache = e.cache \cup {key}],
                       ticked |-> TRUE]

\* Put that overwrites an existing entry where it is, without list.MoveToFront.
Put_UpdateInPlace(c, key, item, t) ==
    IF c.capacity <= 0
    THEN [c |-> c, ticked |-> FALSE]
    ELSE LET stamped == [item EXCEPT !.LastUsed = t]
         IN  IF key \in c.cache
             THEN [c |-> [c EXCEPT !.list = SetItem(c.list, key, stamped)],
                   ticked |-> TRUE]
             ELSE LET e == IF Len(c.list) >= c.capacity THEN evictLRU(c) ELSE c
                  IN  [c |-> [e EXCEPT !.list = PushFront(e.list, cacheEntry(key, stamped)),
                                       !.cache = e.cache \cup {key}],
                       ticked |-> TRUE]

\* Put that refuses only a negative capacity (< for <=).
Put_ZeroCapacityAccepts(c, key, item, t) ==
    IF c.capacity < 0
    THEN [c |-> c, ticked |-> FALSE]
    ELSE LET stamped == [item EXCEPT !.LastUsed = t]
         IN  IF key \in c.cache
             THEN [c |-> [c EXCEPT !.list = SetItem(MoveToFront(c.list, key), key, stamped)],
                   ticked |-> TRUE]
             ELSE LET e == IF Len(c.list) >= c.capacity THEN evictLRU(c) ELSE c
                  IN  [c |-> [e EXCEPT !.list = PushFront(e.list, cacheEntry(key, stamped)),
                                       !.cache = e.cache \cup {key}],
                       ticked |-> TRUE]

Put(c, key, item, t) ==
    IF c.capacity <= 0
    THEN [c |-> c, ticked |-> FALSE]
    ELSE LET stamped == [item EXCEPT !.LastUsed = t]
         IN  IF key \in c.cache
             THEN [c |-> [c EXCEPT !.list = SetItem(MoveToFront(c.list, key), key, stamped)],
                   ticked |-> TRUE]
             ELSE LET e == IF Len(c.list) >= c.capacity THEN evictLRU(c) ELSE c
                  IN  [c |-> [e EXCEPT !.list = PushFront(e.list, cacheEntry(key, stamped)),
                                       !.cache = e.cache \cup {key}],
                       ticked |-> TRUE]

Size(c) == Len(c.list)

\* Clear that replaces the map and keeps the list.
Clear_KeepList(c) == [c EXCEPT !.cache = {}]

Clear(c) == [c EXCEPT !.cache = {}, !.list = <<>>]

(***************************************************************************)
(* JSON values as encoding/json decodes them into `any`: a tag and a       *)
(* value.  An object is a function from its keys, an array a sequence.     *)
(***************************************************************************)
JStr(s) == [t |-> "string", v |-> s]
JNum(n) == [t |-> "number", v |-> n]
JArr(a) == [t |-> "array", v |-> a]
JObj(o) == [t |-> "object", v |-> o]
JNull == [t |-> "null", v |-> 0]

NoKeys == [k \in {} |-> JNull]

IsString(x) == x.t = "string"
IsArray(x) == x.t = "array"
IsObject(x) == x.t = "object"

Has(o, k) == k \in DOMAIN o.v

\* m[k] of a Go map: nil when the key is absent
Field(o, k) == IF Has(o, k) THEN o.v[k] ELSE JNull

\* m[k] = val
SetField(o, k, val) ==
    JObj([y \in (DOMAIN o.v) \cup {k} |-> IF y = k THEN val ELSE o.v[y]])

\* delete(m, k)
DelField(o, k) == JObj([y \in (DOMAIN o.v) \ {k} |-> o.v[y]])

(***************************************************************************)
(* providers: the presets of getProviderConfig.  A dotted path is held as  *)
(* the sequence of its parts, what strings.Split(path, ".") returns.       *)
(***************************************************************************)
LlamaCpp ==
    [Name |-> "llama-cpp", Reasoning |-> "reasoning_content",
     ReasoningEffort |-> <<"chat_template_kwargs", "reasoning_effort">>]

LMStudio ==
    [Name |-> "lmstudio", Reasoning |-> "reasoning",
     ReasoningEffort |-> <<"reasoning", "effort">>]

Providers == {LlamaCpp, LMStudio}

CanonicalEffort == <<"reasoning", "effort">>

(***************************************************************************)
(* adapter.go: the request side.  The adapter is written against the       *)
(* cache whose items carry no LastUsed, so its calls pass the zero time    *)
(* and read no clock.                                                      *)
(***************************************************************************)
ReasoningItem(id, content) == CacheItem(id, content, 0)

\* The scan without the break of line 280: the last id the cache holds wins.
RECURSIVE ScanToolCalls_LastHit(_, _, _)
ScanToolCalls_LastHit(toolCalls, j, c) ==
    IF j > Len(toolCalls)
    THEN [found |-> FALSE, item |-> ZeroItem, c |-> c]
    ELSE LET toolCall == toolCalls[j]
         IN  IF ~IsObject(toolCall) \/ ~IsString(Field(toolCall, "id"))
             THEN ScanToolCalls_LastHit(toolCalls, j + 1, c)
             ELSE LET r == Get(c, Field(toolCall, "id").v, 0)
                      rest == ScanToolCalls_LastHit(toolCalls, j + 1, r.c)
                  IN  IF r.found /\ ~rest.found
                      THEN [found |-> TRUE, item |-> r.item, c |-> rest.c]
                      ELSE rest

\* injectReasoningFromCache, lines 265-282: the scan of one message's tool
\* calls; stops at the first id the cache holds
RECURSIVE ScanToolCalls(_, _, _)
ScanToolCalls(toolCalls, j, c) ==
    IF j > Len(toolCalls)
    THEN [found |-> FALSE, item |-> ZeroItem, c |-> c]
    ELSE LET toolCall == toolCalls[j]
         IN  IF ~IsObject(toolCall) \/ ~IsString(Field(toolCall, "id"))
             THEN ScanToolCalls(toolCalls, j + 1, c)
             ELSE LET r == Get(c, Field(toolCall, "id").v, 0)
                  IN  IF r.found
                      THEN [found |-> TRUE, item |-> r.item, c |-> r.c]
                      ELSE ScanToolCalls(toolCalls, j + 1, r.c)

\* injectReasoningFromCache, lines 249-283: one message
InjectMessage(msg, c, field) ==
    IF ~IsObject(msg)
    THEN [msg |-> msg, c |-> c]
    ELSE IF ~IsString(Field(msg, "role")) \/ Field(msg, "role").v # "assistant"
    THEN [msg |-> msg, c |-> c]
    ELSE IF ~IsArray(Field(msg, "tool_calls")) \/ Len(Field(msg, "tool_calls").v) = 0
    THEN [msg |-> msg, c |-> c]
    ELSE LET r == ScanToolCalls(Field(msg, "tool_calls").v, 1, c)
         IN  IF r.found
             THEN [msg |-> SetField(msg, field, JStr(r.item.Content)), c |-> r.c]
             ELSE [msg |-> msg, c |-> r.c]

RECURSIVE InjectMessages(_, _, _, _)
InjectMessages(messages, i, c, field) ==
    IF i > Len(messages)
    THEN [messages |-> messages, c |-> c]
    ELSE LET r == InjectMessage(messages[i], c, field)
         IN  InjectMessages([messages EXCEPT ![i] = r.msg], i + 1, r.c, field)

\* injectReasoningFromCache: the request body and the cache afterwards
injectReasoningFromCache(requestData, c, field) ==
    IF ~IsArray(Field(requestData, "messages"))
    THEN [data |-> requestData, c |-> c]
    ELSE LET r == InjectMessages(Field(requestData, "messages").v, 1, c, field)
         IN  [data |-> SetField(requestData, "messages", JArr(r.messages)), c |-> r.c]

RECURSIVE getNestedField(_, _)
getNestedField(data, parts) ==
    IF Len(parts) = 0
    THEN JNull
    ELSE IF Len(parts) = 1
    THEN Field(data, parts[1])
    ELSE IF IsObject(Field(data, parts[1]))
    THEN getNestedField(Field(data, parts[1]), Tail(parts))
    ELSE JNull

\* setNestedField that puts a new record where an intermediate key holds a
\* value of another type.
RECURSIVE setNestedField_Overwrites(_, _, _)
setNestedField_Overwrites(data, parts, value) ==
    IF Len(parts) = 0
    THEN data
    ELSE IF Len(parts) = 1
    THEN SetField(data, parts[1], value)
    ELSE LET made == IF IsObject(Field(data, parts[1]))
                     THEN data
                     ELSE SetField(data, parts[1], JObj(NoKeys))
         IN  SetField(made, parts[1],
                      setNestedField_Overwrites(Field(made, parts[1]), Tail(parts), value))

RECURSIVE setNestedField(_, _, _)
setNestedField(data, parts, value) ==
    IF Len(parts) = 0
    THEN data
    ELSE IF Len(parts) = 1
    THEN SetField(data, parts[1], value)
    ELSE LET made == IF Has(data, parts[1]) THEN data ELSE SetField(data, parts[1], JObj(NoKeys))
         IN  IF IsObject(Field(made, parts[1]))
             THEN SetField(made, parts[1], setNestedField(Field(made, parts[1]), Tail(parts), value))
             ELSE made

RECURSIVE deleteNestedField(_, _)
deleteNestedField(data, parts) ==
    IF Len(parts) = 0
    THEN data
    ELSE IF Len(parts) = 1
    THEN DelField(data, parts[1])
    ELSE IF IsObject(Field(data, parts[1]))
    THEN SetField(data, parts[1], deleteNestedField(Field(data, parts[1]), Tail(parts)))
    ELSE data

\* injectReasoningEffort without the test for the canonical path.
injectReasoningEffort_NoCanonicalTest(requestData, prov) ==
    IF prov.ReasoningEffort = <<>>
    THEN requestData
    ELSE LET reasoningEffort == getNestedField(requestData, CanonicalEffort)
         IN  IF reasoningEffort = JNull
             THEN requestData
             ELSE deleteNestedField(
                      setNestedField(requestData, prov.ReasoningEffort, reasoningEffort),
                      CanonicalEffort)

injectReasoningEffort(requestData, prov) ==
    IF prov.ReasoningEffort = <<>> \/ prov.ReasoningEffort = CanonicalEffort
    THEN requestData
    ELSE LET reasoningEffort == getNestedField(requestData, CanonicalEffort)
         IN  IF reasoningEffort = JNull
             THEN requestData
             ELSE deleteNestedField(
                      setNestedField(requestData, prov.ReasoningEffort, reasoningEffort),
                      CanonicalEffort)

(***************************************************************************)
(* adapter.go: the response side.                                          *)
(***************************************************************************)
\* choices[0].message or choices[0].delta, when the body has it
FirstChoice(data, member) ==
    IF ~IsArray(Field(data, "choices")) \/ Len(Field(data, "choices").v) = 0
    THEN [ok |-> FALSE, v |-> JNull]
    ELSE IF ~IsObject(Field(data, "choices").v[1])
    THEN [ok |-> FALSE, v |-> JNull]
    ELSE IF ~IsObject(Field(Field(data, "choices").v[1], member))
    THEN [ok |-> FALSE, v |-> JNull]
    ELSE [ok |-> TRUE, v |-> Field(Field(data, "choices").v[1], member)]

\* the body with choices[0].<member> replaced
SetFirstChoice(data, member, val) ==
    LET choices == Field(data, "choices").v
    IN  SetField(data, "choices",
                 JArr([choices EXCEPT ![1] = SetField(choices[1], member, val)]))

\* extractAndCacheReasoning that keys the reasoning on the last tool call.
extractAndCacheReasoning_KeysLastToolCall(responseData, c, field) ==
    LET m == FirstChoice(responseData, "message")
    IN  IF ~m.ok
        THEN c
        ELSE IF ~IsArray(Field(m.v, "tool_calls")) \/ Len(Field(m.v, "tool_calls").v) = 0
        THEN c
        ELSE IF ~IsString(Field(m.v, field))
        THEN c
        ELSE LET toolCalls == Field(m.v, "tool_calls").v
                 toolCall == toolCalls[Len(toolCalls)]
             IN  IF ~IsObject(toolCall) \/ ~IsString(Field(toolCall, "id"))
                 THEN c
                 ELSE Put(c, Field(toolCall, "id").v,
                          ReasoningItem(Field(toolCall, "id").v, Field(m.v, field).v), 0).c

\* extractAndCacheReasoning: the cache afterwards
extractAndCacheReasoning(responseData, c, field) ==
    LET m == FirstChoice(responseData, "message")
    IN  IF ~m.ok
        THEN c
        ELSE IF ~IsArray(Field(m.v, "tool_calls")) \/ Len(Field(m.v, "tool_calls").v) = 0
        THEN c
        ELSE IF ~IsString(Field(m.v, field))
        THEN c
        ELSE IF ~IsObject(Field(m.v, "tool_calls").v[1])
        THEN c
        ELSE IF ~IsString(Field(Field(m.v, "tool_calls").v[1], "id"))
        THEN c
        ELSE LET id == Field(Field(m.v, "tool_calls").v[1], "id").v
             IN  Put(c, id, ReasoningItem(id, Field(m.v, field).v), 0).c

\* The rename without the delete: the provider's key stays beside "reasoning".
RenameReasoning_KeepsProviderKey(obj, field) == SetField(obj, "reasoning", Field(obj, field))

\* the rename of lines 235-239 and 431-433: message["reasoning"] = text, then
\* delete(message, Provider.Reasoning)
RenameReasoning(obj, field) ==
    DelField(SetField(obj, "reasoning", Field(obj, field)), field)

transformReasoningContentToReasoning(responseData, field) ==
    LET m == FirstChoice(responseData, "message")
    IN  IF ~m.ok
        THEN responseData
        ELSE IF IsString(Field(m.v, field))
        THEN SetFirstChoice(responseData, "message", RenameReasoning(m.v, field))
        ELSE responseData

(***************************************************************************)
(* A line of the event stream.  data: whether it starts with "data: ";     *)
(* kind: what follows is "[DONE]", nothing ("empty"), a JSON text ("json", *)
(* with its value), or text that does not decode ("text"); enc: the bytes  *)
(* of the payload are the backend's ("backend") or json.Marshal's          *)
(* ("marshal": keys sorted, no insignificant space).                       *)
(* eol: the bytes that end the line, "\n" unless said otherwise; long:    *)
(* the line is longer than bufio.MaxScanTokenSize (64 KiB), the most a     *)
(* bufio.Scanner with its default buffer gives as one token.               *)
(***************************************************************************)
Line(data, kind, v, enc) ==
    [data |-> data, kind |-> kind, v |-> v, enc |-> enc, eol |-> "\n", long |-> FALSE]

\* scanner.Text() after scanner.Scan(): bufio.ScanLines gives the line
\* without its end-of-line marker, "\n" or "\r\n"
ScanLine(line) == [line EXCEPT !.eol = ""]

\* modifiedLine + "\n"
WriteLine(line) == [line EXCEPT !.eol = "\n"]

\* json.Unmarshal([]byte(data), &eventData) into a map[string]any
Unmarshal(line) ==
    IF line.kind = "json" /\ IsObject(line.v)
    THEN [ok |-> TRUE, v |-> line.v]
    ELSE [ok |-> FALSE, v |-> JNull]

\* transformStreamingLine that forwards an empty data line for a payload
\* that does not decode.
transformStreamingLine_BlanksUndecodable(line, field) ==
    IF ~line.data
    THEN line
    ELSE IF line.kind = "[DONE]" \/ line.kind = "empty"
    THEN line
    ELSE IF ~Unmarshal(line).ok
    THEN Line(TRUE, "empty", JNull, "backend")
    ELSE LET eventData == Unmarshal(line).v
             d == FirstChoice(eventData, "delta")
         IN  IF ~d.ok
             THEN line
             ELSE IF IsString(Field(d.v, field))
             THEN Line(TRUE, "json",
                       SetFirstChoice(eventData, "delta", RenameReasoning(d.v, field)),
                       "marshal")
             ELSE line

\* transformStreamingLine without the test for the prefix "data: ".
transformStreamingLine_AnyLine(line, field) ==
    IF line.kind = "[DONE]" \/ line.kind = "empty"
    THEN line
    ELSE IF ~Unmarshal(line).ok
    THEN line
    ELSE LET eventData == Unmarshal(line).v
             d == FirstChoice(eventData, "delta")
         IN  IF ~d.ok
             THEN line
             ELSE IF IsString(Field(d.v, field))
             THEN Line(line.data, "json",
                       SetFirstChoice(eventData, "delta", RenameReasoning(d.v, field)),
                       "marshal")
             ELSE line

transformStreamingLine(line, field) ==
    IF ~line.data
    THEN line
    ELSE IF line.kind = "[DONE]" \/ line.kind = "empty"
    THEN line
    ELSE IF ~Unmarshal(line).ok
    THEN line
    ELSE LET eventData == Unmarshal(line).v
             d == FirstChoice(eventData, "delta")
         IN  IF ~d.ok
             THEN line
             ELSE IF IsString(Field(d.v, field))
             THEN Line(TRUE, "json",
                       SetFirstChoice(eventData, "delta", RenameReasoning(d.v, field)),
                       "marshal")
             ELSE line

\* processStreamingDelta whose accumulator keeps only the latest fragment.
processStreamingDelta_KeepsLastFragment(eventData, reasoningContent, toolCallID, field) ==
    LET d == FirstChoice(eventData, "delta")
    IN  IF ~d.ok
        THEN [reasoningContent |-> reasoningContent, toolCallID |-> toolCallID]
        ELSE [reasoningContent |->
                 IF IsString(Field(d.v, field))
                 THEN Field(d.v, field).v
                 ELSE reasoningContent,
              toolCallID |->
                 IF /\ IsArray(Field(d.v, "tool_calls"))
                    /\ Len(Field(d.v, "tool_calls").v) > 0
                    /\ IsObject(Field(d.v, "tool_calls").v[1])
                    /\ IsString(Field(Field(d.v, "tool_calls").v[1], "id"))
                 THEN Field(Field(d.v, "tool_calls").v[1], "id").v
                 ELSE toolCallID]

\* processStreamingDelta: the accumulator and the tool-call id afterwards
processStreamingDelta(eventData, reasoningContent, toolCallID, field) ==
    LET d == FirstChoice(eventData, "delta")
    IN  IF ~d.ok
        THEN [reasoningContent |-> reasoningContent, toolCallID |-> toolCallID]
        ELSE [reasoningContent |->
                 IF IsString(Field(d.v, field))
                 THEN reasoningContent \o Field(d.v, field).v
                 ELSE reasoningContent,
              toolCallID |->
                 IF /\ IsArray(Field(d.v, "tool_calls"))
                    /\ Len(Field(d.v, "tool_calls").v) > 0
                    /\ IsObject(Field(d.v, "tool_calls").v[1])
                    /\ IsString(Field(Field(d.v, "tool_calls").v[1], "id"))
                 THEN Field(Field(d.v, "tool_calls").v[1], "id").v
                 ELSE toolCallID]

\* lines 369-376 and 389-396: the Put of a stream's reasoning, when there is
\* reasoning and a tool-call id
\* The Put of the accumulated reasoning without its test.
finalizeStream_Always(c, reasoningContent, toolCallID) ==
    Put(c, toolCallID, ReasoningItem(toolCallID, reasoningContent), 0).c

finalizeStream(c, reasoningContent, toolCallID) ==
    IF Len(reasoningContent) > 0 /\ toolCallID # ""
    THEN Put(c, toolCallID, ReasoningItem(toolCallID, reasoningContent), 0).c
    ELSE c

(***************************************************************************)
(* The cache object as one value, and its sequential use: one action per   *)
(* call, the calls drawn from Keys and Contents.                           *)
(***************************************************************************)
C == [capacity |-> capacity, cache |-> cache, list |-> list]

SetC(c) ==
    /\ capacity' = c.capacity
    /\ cache' = c.cache
    /\ list' = c.list

Ret(op, key, arg, item, found, size) ==
    [op |-> op, key |-> key, arg |-> arg, item |-> item, found |-> found, size |-> size]

NoRet == Ret("", "", ZeroItem, ZeroItem, FALSE, 0)

(***************************************************************************)
(* The adapter: HTTP exchanges on /v1/chat/completions.  An exchange is    *)
(* the run of handleChatCompletions for one request: the request is        *)
(* decoded, augmented and sent (Request), then the backend's answer is     *)
(* handled as a blocking body or as an event stream, line by line.         *)
(***************************************************************************)
Written(kind, status, v) == [kind |-> kind, status |-> status, v |-> v]

NothingWritten == Written("none", 0, JNull)

\* listAtStart: the recency list as the exchange found it, kept until the
\* backend's body is handled.
IdleExchange ==
    [pc |-> "idle", request |-> JNull, forwarded |-> JNull, written |-> NothingWritten,
     nwritten |-> 0, reasoningContent |-> "", toolCallID |-> "", nlines |-> 0,
     listAtStart |-> <<>>, pending |-> JNull]

\* What a stream has carried so far: whether a reasoning fragment came (has)
\* and the fragments joined in arrival order (R); the non-empty ids that came (ids),
\* whether any came (seen) and the latest (last); whether [DONE] came (done).
NoHist == [has |-> FALSE, R |-> "", ids |-> {}, seen |-> FALSE, last |-> "", done |-> FALSE]

NoReasoning == [has |-> FALSE, R |-> ""]

InitAdapter ==
    /\ exch = [e \in Exchanges |-> IdleExchange]
    /\ hist = [e \in Exchanges |-> NoHist]
    /\ carried = [k \in ToolCallIDs |-> NoReasoning]
    /\ keyed = [k \in ToolCallIDs |-> NoReasoning]

NoCall == [op |-> "", key |-> "", item |-> ZeroItem, victim |-> "", found |-> FALSE, size |-> 0]

InitCache ==
    /\ capacity \in Capacities
    /\ cache = NewLRUCache(capacity).cache
    /\ list = NewLRUCache(capacity).list
    /\ now = 0

InitSeq ==
    /\ ret = NoRet
    /\ gone = {}

InitConc ==
    /\ mutex = [w |-> 0, r |-> {}]
    /\ pc = [p \in Callers |-> "idle"]
    /\ call = [p \in Callers |-> NoCall]

InitLRU ==
    /\ InitCache
    /\ InitSeq
    /\ InitConc
    /\ provider = LlamaCpp
    /\ InitAdapter

CallGet(key) ==
    LET r == Get(C, key, now + 1)
    IN  /\ r.ticked => now < MaxClock
        /\ SetC(r.c)
        /\ now' = IF r.ticked THEN now + 1 ELSE now
        /\ ret' = Ret("Get", key, ZeroItem, r.item, r.found, 0)
        /\ UNCHANGED <<gone, concVars, adapterVars>>

CallPut(key, item) ==
    LET r == Put(C, key, item, now + 1)
    IN  /\ r.ticked => now < MaxClock
        /\ SetC(r.c)
        /\ now' = IF r.ticked THEN now + 1 ELSE now
        /\ ret' = Ret("Put", key, item, ZeroItem, FALSE, 0)
        /\ gone' = gone \ {key}
        /\ UNCHANGED <<concVars, adapterVars>>

CallSize ==
    /\ ret' = Ret("Size", "", ZeroItem, ZeroItem, FALSE, Size(C))
    /\ UNCHANGED <<capacity, cache, list, now, gone, concVars, adapterVars>>

CallClear ==
    /\ SetC(Clear(C))
    /\ ret' = Ret("Clear", "", ZeroItem, ZeroItem, FALSE, 0)
    /\ gone' = gone \cup cache
    /\ UNCHANGED <<now, concVars, adapterVars>>

NextLRU ==
    \/ \E key \in Keys : CallGet(key)
    \/ \E key \in Keys, content \in Contents : CallPut(key, CacheItem(key, content, 0))
    \/ CallSize
    \/ CallClear

SpecLRU == InitLRU /\ [][NextLRU]_vars

(***************************************************************************)
(* The cache under concurrent callers: every method runs as the statements *)
(* of lru_cache.go, one step each, between its Lock/RLock and the deferred *)
(* Unlock/RUnlock.  A caller blocked in Lock or RLock takes no step.       *)
(***************************************************************************)
\* sync.RWMutex: Lock needs no writer and no reader, RLock needs no writer.
Lock(p) ==
    /\ mutex.w = 0
    /\ mutex.r = {}
    /\ mutex' = [mutex EXCEPT !.w = p]

RLock(p) ==
    /\ mutex.w = 0
    /\ mutex' = [mutex EXCEPT !.r = @ \cup {p}]

Goto(p, label) == pc' = [pc EXCEPT ![p] = label]

\* Get that takes the read lock (RLock for Lock).
GetLock_RLock(p, key) ==
    /\ pc[p] = "idle"
    /\ now < MaxClock
    /\ RLock(p)
    /\ call' = [call EXCEPT ![p] = [NoCall EXCEPT !.op = "Get", !.key = key]]
    /\ Goto(p, "Get:lookup")
    /\ UNCHANGED <<capacity, cache, list, now, seqVars, adapterVars>>

\* Get, line 36: c.mutex.Lock()
GetLock(p, key) ==
    /\ pc[p] = "idle"
    /\ now < MaxClock
    /\ Lock(p)
    /\ call' = [call EXCEPT ![p] = [NoCall EXCEPT !.op = "Get", !.key = key]]
    /\ Goto(p, "Get:lookup")
    /\ UNCHANGED <<capacity, cache, list, now, seqVars, adapterVars>>

\* Get, line 39: elem, exists := c.cache[key]
GetLookup(p) ==
    /\ pc[p] = "Get:lookup"
    /\ IF call[p].key \in cache
       THEN Goto(p, "Get:move") /\ UNCHANGED call
       ELSE Goto(p, "unlock") /\ call' = [call EXCEPT ![p].found = FALSE]
    /\ UNCHANGED <<capacity, cache, list, now, seqVars, adapterVars, mutex>>

\* Get, line 40: c.list.MoveToFront(elem)
GetMove(p) ==
    /\ pc[p] = "Get:move"
    /\ list' = MoveToFront(list, call[p].key)
    /\ Goto(p, "Get:stamp")
    /\ UNCHANGED <<capacity, cache, now, seqVars, adapterVars, mutex, call>>

\* Get, lines 41-43: entry.item.LastUsed = time.Now(); return entry.item, true
GetStamp(p) ==
    /\ pc[p] = "Get:stamp"
    /\ LET i == IndexOf(list, call[p].key)
           item == [list[i].item EXCEPT !.LastUsed = now + 1]
       IN  /\ list' = SetItem(list, call[p].key, item)
           /\ call' = [call EXCEPT ![p].found = TRUE, ![p].item = item]
    /\ now' = now + 1
    /\ Goto(p, "unlock")
    /\ UNCHANGED <<capacity, cache, seqVars, adapterVars, mutex>>

\* Put, line 49: c.mutex.Lock()
PutLock(p, key, item) ==
    /\ pc[p] = "idle"
    /\ now < MaxClock
    /\ Lock(p)
    /\ call' = [call EXCEPT ![p] = [NoCall EXCEPT !.op = "Put", !.key = key, !.item = item]]
    /\ Goto(p, "Put:check")
    /\ UNCHANGED <<capacity, cache, list, now, seqVars, adapterVars>>

\* Put, lines 52-67: the capacity test, item.LastUsed = time.Now(), and the
\* branch on the key being present and on the list being full
PutCheck(p) ==
    /\ pc[p] = "Put:check"
    /\ IF capacity <= 0
       THEN Goto(p, "unlock") /\ UNCHANGED <<call, now>>
       ELSE /\ call' = [call EXCEPT ![p].item.LastUsed = now + 1]
            /\ now' = now + 1
            /\ IF call[p].key \in cache
               THEN Goto(p, "Put:move")
               ELSE IF Len(list) >= capacity
                    THEN Goto(p, "evictLRU:remove")
                    ELSE Goto(p, "Put:push")
    /\ UNCHANGED <<capacity, cache, list, seqVars, adapterVars, mutex>>

\* Put, line 59: c.list.MoveToFront(elem)
PutMove(p) ==
    /\ pc[p] = "Put:move"
    /\ list' = MoveToFront(list, call[p].key)
    /\ Goto(p, "Put:set")
    /\ UNCHANGED <<capacity, cache, now, seqVars, adapterVars, mutex, call>>

\* Put, lines 60-62: entry.item = item; return
PutSet(p) ==
    /\ pc[p] = "Put:set"
    /\ list' = SetItem(list, call[p].key, call[p].item)
    /\ Goto(p, "unlock")
    /\ UNCHANGED <<capacity, cache, now, seqVars, adapterVars, mutex, call>>

\* evictLRU, lines 75-77: elem := c.list.Back(); c.list.Remove(elem)
EvictRemove(p) ==
    /\ pc[p] = "evictLRU:remove"
    /\ IF Len(list) = 0
       THEN Goto(p, "Put:push") /\ UNCHANGED <<list, call>>
       ELSE /\ list' = RemoveAt(list, Len(list))
            /\ call' = [call EXCEPT ![p].victim = list[Len(list)].key]
            /\ Goto(p, "evictLRU:delete")
    /\ UNCHANGED <<capacity, cache, now, seqVars, adapterVars, mutex>>

\* evictLRU, lines 78-79: delete(c.cache, entry.key)
EvictDelete(p) ==
    /\ pc[p] = "evictLRU:delete"
    /\ cache' = cache \ {call[p].victim}
    /\ Goto(p, "Put:push")
    /\ UNCHANGED <<capacity, list, now, seqVars, adapterVars, mutex, call>>

\* Put, lines 69-70: elem := c.list.PushFront(entry)
PutPush(p) ==
    /\ pc[p] = "Put:push"
    /\ list' = PushFront(list, cacheEntry(call[p].key, call[p].item))
    /\ Goto(p, "Put:index")
    /\ UNCHANGED <<capacity, cache, now, seqVars, adapterVars, mutex, call>>

\* Put, line 71: c.cache[key] = elem
PutIndex(p) ==
    /\ pc[p] = "Put:index"
    /\ cache' = cache \cup {call[p].key}
    /\ Goto(p, "unlock")
    /\ UNCHANGED <<capacity, list, now, seqVars, adapterVars, mutex, call>>

\* Size, line 84: c.mutex.RLock()
SizeRLock(p) ==
    /\ pc[p] = "idle"
    /\ RLock(p)
    /\ call' = [call EXCEPT ![p] = [NoCall EXCEPT !.op = "Size"]]
    /\ Goto(p, "Size:len")
    /\ UNCHANGED <<capacity, cache, list, now, seqVars, adapterVars>>

\* Size, line 86: return c.list.Len()
SizeLen(p) ==
    /\ pc[p] = "Size:len"
    /\ call' = [call EXCEPT ![p].size = Len(list)]
    /\ Goto(p, "runlock")
    /\ UNCHANGED <<capacity, cache, list, now, seqVars, adapterVars, mutex>>

\* Clear, line 90: c.mutex.Lock()
ClearLock(p) ==
    /\ pc[p] = "idle"
    /\ Lock(p)
    /\ call' = [call EXCEPT ![p] = [NoCall EXCEPT !.op = "Clear"]]
    /\ Goto(p, "Clear:map")
    /\ UNCHANGED <<capacity, cache, list, now, seqVars, adapterVars>>

\* Clear, line 92: c.cache = make(map[string]*list.Element)
ClearMap(p) ==
    /\ pc[p] = "Clear:map"
    /\ cache' = {}
    /\ Goto(p, "Clear:list")
    /\ UNCHANGED <<capacity, list, now, seqVars, adapterVars, mutex, call>>

\* Clear, line 93: c.list = list.New()
ClearList(p) ==
    /\ pc[p] = "Clear:list"
    /\ list' = <<>>
    /\ Goto(p, "unlock")
    /\ UNCHANGED <<capacity, cache, now, seqVars, adapterVars, mutex, call>>

\* defer c.mutex.Unlock(), of Get, Put and Clear
Unlock(p) ==
    /\ pc[p] = "unlock"
    /\ mutex' = [mutex EXCEPT !.w = 0]
    /\ call' = [call EXCEPT ![p] = NoCall]
    /\ Goto(p, "idle")
    /\ UNCHANGED <<capacity, cache, list, now, seqVars, adapterVars>>

\* defer c.mutex.RUnlock(), of Size
RUnlock(p) ==
    /\ pc[p] = "runlock"
    /\ mutex' = [mutex EXCEPT !.r = @ \ {p}]
    /\ call' = [call EXCEPT ![p] = NoCall]
    /\ Goto(p, "idle")
    /\ UNCHANGED <<capacity, cache, list, now, seqVars, adapterVars>>

NextConc ==
    \E p \in Callers :
        \/ \E key \in Keys : GetLock(p, key)
        \/ GetLookup(p)
        \/ GetMove(p)
        \/ GetStamp(p)
        \/ \E key \in Keys, content \in Contents : PutLock(p, key, CacheItem(key, content, 0))
        \/ PutCheck(p)
        \/ PutMove(p)
        \/ PutSet(p)
        \/ EvictRemove(p)
        \/ EvictDelete(p)
        \/ PutPush(p)
        \/ PutIndex(p)
        \/ SizeRLock(p)
        \/ SizeLen(p)
        \/ ClearLock(p)
        \/ ClearMap(p)
        \/ ClearList(p)
        \/ Unlock(p)
        \/ RUnlock(p)

SpecConc == InitLRU /\ [][NextConc]_vars

\* startServer: NewLRUCache of a positive capacity, getProviderConfig(provider)
Init ==
    /\ capacity \in 1 .. MaxCapacity
    /\ cache = NewLRUCache(capacity).cache
    /\ list = NewLRUCache(capacity).list
    /\ now = 0
    /\ InitSeq
    /\ InitConc
    /\ provider \in Providers
    /\ InitAdapter

(***************************************************************************)
(* The inputs: request bodies, blocking response bodies and stream lines,  *)
(* written out as JSON values over the provider's reasoning field name.    *)
(***************************************************************************)
ToolCall(id) == JObj([id |-> JStr(id), type |-> JStr("function")])

ToolCallNoID == JObj([index |-> JNum(0), type |-> JStr("function")])

Assistant(toolCalls) == JObj([role |-> JStr("assistant"), tool_calls |-> JArr(toolCalls)])

Messages(field) ==
    { Assistant(<<ToolCall("tc1")>>),
      Assistant(<<ToolCall("tc1"), ToolCall("tc2")>>),
      Assistant(<<ToolCallNoID, JStr("x"), ToolCall("tc2")>>),
      SetField(Assistant(<<ToolCall("tc2")>>), field, JStr("stale")),
      JObj([role |-> JStr("assistant"), content |-> JStr("hi")]),
      JObj([role |-> JStr("user"), content |-> JStr("q"), tool_calls |-> JArr(<<ToolCall("tc1")>>)]),
      JStr("not a message") }

MessageLists(field) ==
    UNION {[1 .. n -> Messages(field)] : n \in 1 .. MaxMessages}

ChatRequest(messages) == JObj([model |-> JStr("gpt-oss"), messages |-> JArr(messages)])

\* Requests with something at "reasoning": an effort beside another key, an
\* effort that is a number, an effort next to chat_template_kwargs that
\* holds a key already, and a "reasoning" that is no record.
EffortRequests ==
    { SetField(ChatRequest(<<>>), "reasoning",
               JObj([effort |-> JStr("low"), summary |-> JStr("auto")])),
      SetField(ChatRequest(<<>>), "reasoning", JObj([effort |-> JNum(3)])),
      SetField(SetField(ChatRequest(<<>>), "reasoning", JObj([effort |-> JStr("high")])),
               "chat_template_kwargs", JObj([enable_thinking |-> JStr("yes")])),
      SetField(ChatRequest(<<>>), "reasoning", JStr("on")) }

RequestBodies(field) ==
    {ChatRequest(ms) : ms \in MessageLists(field)}
    \cup EffortRequests
    \cup { JObj([model |-> JStr("gpt-oss")]),
           JObj([model |-> JStr("gpt-oss"), messages |-> JStr("none")]),
           SetField(ChatRequest(<<Assistant(<<ToolCall("tc1")>>)>>), "reasoning",
                    JObj([effort |-> JStr("high")])),
           SetField(SetField(ChatRequest(<<Assistant(<<ToolCall("tc1")>>)>>), "reasoning",
                             JObj([effort |-> JStr("high")])),
                    "chat_template_kwargs", JStr("none")) }

\* Content-Type values of backend responses, each with whether it contains
\* the event-stream media type (stream).
ContentTypes ==
    { [v |-> "text/event-stream", stream |-> TRUE],
      [v |-> "text/event-stream; charset=utf-8", stream |-> TRUE],
      [v |-> "application/json", stream |-> FALSE],
      [v |-> "text/plain; charset=utf-8", stream |-> FALSE],
      [v |-> "", stream |-> FALSE] }

ChatResponse(message) == JObj([id |-> JStr("r"), choices |-> JArr(<<JObj([index |-> JNum(0), message |-> message])>>)])

\* A blocking response body with what it carries: the ids of its message's
\* tool calls (ids), the id of the first of them (first, "" when it has
\* none), and whether the message has reasoning text (has) and which (R).
Carries(body, ids, first, has, R) == [body |-> body, ids |-> ids, first |-> first, has |-> has, R |-> R]

ResponseBodies(field) ==
    { Carries(ChatResponse(SetField(Assistant(<<ToolCall("tc1")>>), field, JStr("he"))),
              {"tc1"}, "tc1", TRUE, "he"),
      Carries(ChatResponse(SetField(Assistant(<<ToolCall("tc2"), ToolCall("tc1")>>), field, JStr("llo"))),
              {"tc1", "tc2"}, "tc2", TRUE, "llo"),
      Carries(ChatResponse(SetField(Assistant(<<ToolCall("tc1")>>), field, JStr(""))),
              {"tc1"}, "tc1", TRUE, ""),
      Carries(ChatResponse(SetField(Assistant(<<ToolCallNoID, ToolCall("tc2")>>), field, JStr("he"))),
              {"tc2"}, "", TRUE, "he"),
      Carries(ChatResponse(Assistant(<<ToolCall("tc1")>>)), {"tc1"}, "tc1", FALSE, ""),
      Carries(ChatResponse(SetField(Assistant(<<>>), field, JStr("he"))), {}, "", TRUE, "he"),
      Carries(ChatResponse(SetField(JObj([role |-> JStr("assistant"), content |-> JStr("hi")]),
                                    field, JStr("llo"))),
              {}, "", TRUE, "llo"),
      Carries(ChatResponse(JObj([role |-> JStr("assistant"), content |-> JStr("hi")])), {}, "", FALSE, ""),
      Carries(JObj([id |-> JStr("r"), choices |-> JArr(<<>>)]), {}, "", FALSE, ""),
      Carries(JObj([error |-> JStr("overloaded")]), {}, "", FALSE, "") }

Event(delta) == JObj([id |-> JStr("s"), choices |-> JArr(<<JObj([index |-> JNum(0), delta |-> delta])>>)])

DataLine(v) == Line(TRUE, "json", v, "backend")

\* A stream line with what it carries: whether its delta has a reasoning
\* fragment (has) and which (frag), whether the first tool call of its delta
\* has an id (seen) and which (id).
LineCarries(line, has, frag, seen, id) ==
    [line |-> line, has |-> has, frag |-> frag, seen |-> seen, id |-> id]

DoneLine == Line(TRUE, "[DONE]", JNull, "backend")

StreamLines(field) ==
    { LineCarries(DataLine(Event(JObj((field :> JStr("he")) @@ [tool_calls |-> JArr(<<ToolCall("tc1")>>)]))),
                  TRUE, "he", TRUE, "tc1"),
      LineCarries(DataLine(Event(JObj((field :> JStr("llo"))))), TRUE, "llo", FALSE, ""),
      LineCarries(DataLine(Event(JObj((field :> JStr(""))))), TRUE, "", FALSE, ""),
      LineCarries(DataLine(Event(JObj([tool_calls |-> JArr(<<ToolCall("tc2")>>)]))), FALSE, "", TRUE, "tc2"),
      LineCarries(DataLine(Event(JObj([tool_calls |-> JArr(<<ToolCall("")>>)]))), FALSE, "", TRUE, ""),
      LineCarries(DataLine(Event(JObj([tool_calls |-> JArr(<<ToolCallNoID>>)]))), FALSE, "", FALSE, ""),
      LineCarries(DataLine(Event(JObj([content |-> JStr("x")]))), FALSE, "", FALSE, ""),
      LineCarries(Line(TRUE, "text", JStr("{not json"), "backend"), FALSE, "", FALSE, ""),
      LineCarries(Line(TRUE, "empty", JNull, "backend"), FALSE, "", FALSE, ""),
      LineCarries(Line(FALSE, "text", JStr(": keep-alive"), "backend"), FALSE, "", FALSE, ""),
      LineCarries(Line(FALSE, "empty", JNull, "backend"), FALSE, "", FALSE, ""),
      LineCarries([Line(FALSE, "text", JStr(": keep-alive"), "backend") EXCEPT !.eol = "\r\n"],
                  FALSE, "", FALSE, ""),
      LineCarries(Line(FALSE, "json",
                       Event(JObj((field :> JStr("he")) @@ [tool_calls |-> JArr(<<ToolCall("tc2")>>)])),
                       "backend"),
                  FALSE, "", FALSE, ""),
      LineCarries(DoneLine, FALSE, "", FALSE, "") }

\* A data line of more than 64 KiB: an event with a long content.
LongLine == [DataLine(Event(JObj([content |-> JStr("x...")]))) EXCEPT !.long = TRUE]

\* The lines a backend may send.
BackendLines(field) ==
    StreamLines(field) \cup {LineCarries(LongLine, FALSE, "", FALSE, "")}

(***************************************************************************)
(* History of what the responses carried.                                  *)
(***************************************************************************)
\* h after a response carried reasoning R with the tool-call ids `ids`, and
\* the cache went from the keys `before` to the keys `after`: an id that left
\* the cache (eviction) is forgotten.
Remember(h, ids, R, before, after) ==
    [k \in ToolCallIDs |->
        IF k \in before /\ k \notin after
        THEN NoReasoning
        ELSE IF k \in ids
        THEN [has |-> TRUE, R |-> R]
        ELSE h[k]]

(***************************************************************************)
(* handleChatCompletions, lines 102-167: the request.                      *)
(***************************************************************************)
\* The handler's locals kept in one place for all exchanges.
UpdateExchange_Shared(e, x) ==
    exch' = [e2 \in Exchanges |->
                IF e2 = e
                THEN x
                ELSE IF exch[e2].pc \in {"streaming", "written"}
                THEN [exch[e2] EXCEPT !.reasoningContent = x.reasoningContent,
                                      !.toolCallID = x.toolCallID]
                ELSE exch[e2]]

UpdateExchange(e, x) == exch' = [exch EXCEPT ![e] = x]

\* lines 105-117: the body does not decode: 500, nothing sent
RequestMalformed(e) ==
    /\ exch[e].pc = "idle"
    /\ UpdateExchange(e, [IdleExchange EXCEPT
           !.written = Written("error", 500, JStr("Failed to unmarshal request")),
           !.nwritten = 1])
    /\ hist' = [hist EXCEPT ![e] = NoHist]
    /\ UNCHANGED <<capacity, cache, list, now, seqVars, concVars, provider, carried, keyed>>

\* lines 105-162: decode, injectReasoningFromCache, injectReasoningEffort,
\* marshal and send to the backend
HandleRequest(e, requestData) ==
    /\ exch[e].pc = "idle"
    /\ LET r == injectReasoningFromCache(requestData, C, provider.Reasoning)
       IN  /\ SetC(r.c)
           /\ UpdateExchange(e, [IdleExchange EXCEPT
                  !.pc = "sent",
                  !.request = requestData,
                  !.listAtStart = list,
                  !.forwarded = injectReasoningEffort(r.data, provider)])
    /\ hist' = [hist EXCEPT ![e] = NoHist]
    /\ UNCHANGED <<now, seqVars, provider, carried, keyed>>

\* The request handled with the cache's lock taken and released within it.
Request(e, requestData) == HandleRequest(e, requestData) /\ UNCHANGED concVars

\* lines 162-167: a.client.Do fails: 502
BackendFails(e) ==
    /\ exch[e].pc = "sent"
    /\ UpdateExchange(e, [IdleExchange EXCEPT
           !.written = Written("error", 502, JStr("Failed to proxy request")),
           !.nwritten = 1])
    /\ UNCHANGED <<capacity, cache, list, now, seqVars, concVars, provider, hist, carried, keyed>>

\* strings.Contains(s, substr)
Contains(s, substr) ==
    \E i \in 1 .. (Len(s) - Len(substr) + 1) : SubSeq(s, i, i + Len(substr) - 1) = substr

\* The test on the Content-Type as an equality with the media type.
IsEventStream_Equals(contentType) == contentType = "text/event-stream"

\* line 173: the test on the response's Content-Type
IsEventStream(contentType) == Contains(contentType, "text/event-stream")

\* lines 162-179: a.client.Do returns the backend's response, its headers
\* read and its body not yet; the dispatch on Content-Type
Responds(e, contentType) ==
    /\ exch[e].pc = "sent"
    /\ UpdateExchange(e, [IdleExchange EXCEPT
           !.pc = IF IsEventStream(contentType) THEN "stream" ELSE "blocking",
           !.listAtStart = exch[e].listAtStart])
    /\ UNCHANGED <<capacity, cache, list, now, seqVars, concVars, provider, hist, carried, keyed>>

(***************************************************************************)
(* handleChatCompletionsBlocking, lines 182-217.                           *)
(***************************************************************************)
\* lines 190-195: the body does not decode: 500
\* The failed decode of the response answered by passing the body on.
BlockingMalformed_PassesBody(e) ==
    /\ exch[e].pc = "blocking"
    /\ UpdateExchange(e, [IdleExchange EXCEPT
           !.written = Written("body", 200, JStr("<html>")),
           !.nwritten = 1])
    /\ UNCHANGED <<capacity, cache, list, now, seqVars, concVars, provider, hist, carried, keyed>>

BlockingMalformed(e) ==
    /\ exch[e].pc = "blocking"
    /\ UpdateExchange(e, [IdleExchange EXCEPT
           !.written = Written("error", 500, JStr("Failed to unmarshal response")),
           !.nwritten = 1])
    /\ UNCHANGED <<capacity, cache, list, now, seqVars, concVars, provider, hist, carried, keyed>>

BlockingResponse(e, resp) ==
    /\ exch[e].pc = "blocking"
    /\ LET c == extractAndCacheReasoning(resp.body, C, provider.Reasoning)
       IN  /\ SetC(c)
           /\ carried' = IF resp.has
                         THEN Remember(carried, resp.ids, resp.R, cache, c.cache)
                         ELSE Remember(carried, {}, "", cache, c.cache)
           /\ keyed' = IF resp.has /\ resp.first # ""
                       THEN Remember(keyed, {resp.first}, resp.R, cache, c.cache)
                       ELSE Remember(keyed, {}, "", cache, c.cache)
    /\ UpdateExchange(e, [IdleExchange EXCEPT
           !.written = Written("body", 200,
                               transformReasoningContentToReasoning(resp.body, provider.Reasoning)),
           !.nwritten = 1])
    /\ UNCHANGED <<now, seqVars, concVars, provider, hist>>

(***************************************************************************)
(* handleChatCompletionsStreaming, lines 334-399.                          *)
(***************************************************************************)
\* The bytes of a stream's body, as its lines.
Body(lines) == [lines |-> lines]

\* Bodies of event streams: a delta with reasoning and a tool call followed
\* by [DONE], and a comment ended by "\r\n" followed by a line of more than
\* 64 KiB.
StreamBodies(field) ==
    { <<DataLine(Event(JObj((field :> JStr("he")) @@ [tool_calls |-> JArr(<<ToolCall("tc1")>>)]))),
        DoneLine>>,
      <<[Line(FALSE, "text", JStr(": keep-alive"), "backend") EXCEPT !.eol = "\r\n"],
        LongLine>> }

\* The fallback as a loop over the lines without the Put.
StreamCopied_LineByLine(e, body) ==
    /\ exch[e].pc = "stream"
    /\ UpdateExchange(e, [IdleExchange EXCEPT
           !.written = Written("copy", 200,
                               Body([i \in 1 .. Len(body) |->
                                        WriteLine(transformStreamingLine(ScanLine(body[i]),
                                                                         provider.Reasoning))])),
           !.nwritten = 1])
    /\ UNCHANGED <<capacity, cache, list, now, seqVars, concVars, provider, hist, carried, keyed>>

\* lines 347-352: the writer is no http.Flusher: io.Copy of the body
StreamCopied(e, body) ==
    /\ exch[e].pc = "stream"
    /\ UpdateExchange(e, [IdleExchange EXCEPT
           !.written = Written("copy", 200, Body(body)),
           !.nwritten = 1])
    /\ UNCHANGED <<capacity, cache, list, now, seqVars, concVars, provider, hist, carried, keyed>>

\* lines 354-356: the scanner and the stream's locals
StreamStart(e) ==
    /\ exch[e].pc = "stream"
    /\ UpdateExchange(e, [IdleExchange EXCEPT !.pc = "streaming"])
    /\ hist' = [hist EXCEPT ![e] = NoHist]
    /\ UNCHANGED <<capacity, cache, list, now, seqVars, concVars, provider, carried, keyed>>

\* lines 358-386: one iteration of the loop over the lines of the stream.
\* ok: the Write of line 362 succeeded.  The loop does not look at what
\* Write returns; a connection on which a Write has failed fails every
\* later Write.
ScannedLine(e, l, ok) ==
    /\ exch[e].pc = "streaming"
    /\ exch[e].nlines < MaxLines
    /\ ok => exch[e].written.kind # "failed"
    /\ Len(exch[e].reasoningContent) + Len(l.frag) <= MaxReasoningLen
    /\ LET x == exch[e]
           out == WriteLine(transformStreamingLine(ScanLine(l.line), provider.Reasoning))
           isDone == l.line.data /\ l.line.kind = "[DONE]"
           decoded == Unmarshal(l.line)
           s == IF l.line.data /\ ~isDone /\ decoded.ok
                THEN processStreamingDelta(decoded.v, x.reasoningContent, x.toolCallID,
                                           provider.Reasoning)
                ELSE [reasoningContent |-> x.reasoningContent, toolCallID |-> x.toolCallID]
           c == IF isDone THEN finalizeStream(C, x.reasoningContent, x.toolCallID) ELSE C
           h == [has |-> hist[e].has \/ l.has,
                 R |-> IF l.has THEN hist[e].R \o l.frag ELSE hist[e].R,
                 ids |-> IF l.seen /\ l.id # "" THEN hist[e].ids \cup {l.id} ELSE hist[e].ids,
                 seen |-> hist[e].seen \/ l.seen,
                 last |-> IF l.seen THEN l.id ELSE hist[e].last,
                 done |-> hist[e].done \/ isDone]
       IN  /\ UpdateExchange(e, [x EXCEPT
                  !.written = IF ok THEN Written("line", 200, out)
                                    ELSE Written("failed", 200, JNull),
                  !.nwritten = IF ok THEN @ + 1 ELSE @,
                  !.nlines = @ + 1,
                  !.reasoningContent = s.reasoningContent,
                  !.toolCallID = s.toolCallID])
           /\ SetC(c)
           /\ hist' = [hist EXCEPT ![e] = h]
           /\ carried' = IF isDone /\ h.has
                         THEN Remember(carried, h.ids, h.R, cache, c.cache)
                         ELSE Remember(carried, {}, "", cache, c.cache)
           /\ keyed' = IF isDone /\ h.R # "" /\ h.last # ""
                       THEN Remember(keyed, {h.last}, h.R, cache, c.cache)
                       ELSE Remember(keyed, {}, "", cache, c.cache)
    /\ UNCHANGED <<now, seqVars, concVars, provider>>

\* An iteration whose line reaches the client.
StreamLine(e, l) == ScannedLine(e, l, TRUE)

\* An iteration whose Write fails: the client has gone away.
LineLost(e, l) == ScannedLine(e, l, FALSE)

\* The end of the stream without the Put after the loop.
StreamEnd_WithoutPut(e) ==
    /\ exch[e].pc = "streaming"
    /\ SetC(C)
    /\ carried' = carried
    /\ keyed' = keyed
    /\ UpdateExchange(e, IdleExchange)
    /\ UNCHANGED <<now, seqVars, concVars, provider, hist>>

\* lines 387-399: scanner.Scan() returns false (end of input or a read
\* error): the Put after the loop
EndStream(e, at) ==
    /\ exch[e].pc = at
    /\ LET x == exch[e]
           c == finalizeStream(C, x.reasoningContent, x.toolCallID)
           h == hist[e]
       IN  /\ SetC(c)
           /\ carried' = IF h.has
                         THEN Remember(carried, h.ids, h.R, cache, c.cache)
                         ELSE Remember(carried, {}, "", cache, c.cache)
           /\ keyed' = IF h.R # "" /\ h.last # ""
                       THEN Remember(keyed, {h.last}, h.R, cache, c.cache)
                       ELSE Remember(keyed, {}, "", cache, c.cache)
    /\ UpdateExchange(e, IdleExchange)
    /\ UNCHANGED <<now, seqVars, provider, hist>>

\* The end of the stream in one step, from the loop.
StreamEnd(e) == EndStream(e, "streaming") /\ UNCHANGED concVars

\* Requests that ask for a cached id, first, second or after malformed
\* tool calls.
AskingRequests(field) ==
    {ChatRequest(<<m>>) : m \in {Assistant(<<ToolCall("tc1")>>),
                                 Assistant(<<ToolCall("tc1"), ToolCall("tc2")>>),
                                 Assistant(<<ToolCallNoID, JStr("x"), ToolCall("tc2")>>)}}

\* Responses that fill the cache, and responses that leave it alone.
FillingResponses(field) == {r \in ResponseBodies(field) : r.has /\ r.first # ""}

EmptyResponses(field) == {r \in ResponseBodies(field) : ~r.has /\ r.ids = {}}

\* Stream lines whose reasoning is "he" or nothing, and lines that carry
\* neither reasoning nor an id.
ShortLines(field) ==
    {l \in StreamLines(field) : l.frag # "llo" /\ (l.line.kind = "json" => l.has \/ l.seen)}

QuietLines(field) == {l \in StreamLines(field) : ~l.has /\ ~l.seen}

\* line 358: scanner.Scan() on the backend's next line l: the loop body
\* runs on it, or, the line being longer than the scanner's buffer, Scan
\* returns false (bufio.ErrTooLong) and the loop is over
Scan(e, l) ==
    IF l.line.long
    THEN StreamEnd(e)
    ELSE StreamLine(e, l)

\* One exchange at a time, responses and streams of every kind, requests
\* that ask for what they stored.
Next ==
    \E e \in {"x1"} :
        \/ RequestMalformed(e)
        \/ \E requestData \in AskingRequests(provider.Reasoning) : Request(e, requestData)
        \/ BackendFails(e)
        \/ \E contentType \in ContentTypes : Responds(e, contentType.v)
        \/ BlockingMalformed(e)
        \/ \E resp \in ResponseBodies(provider.Reasoning) : BlockingResponse(e, resp)
        \/ \E body \in StreamBodies(provider.Reasoning) : StreamCopied(e, body)
        \/ StreamStart(e)
        \/ \E l \in ShortLines(provider.Reasoning) : StreamLine(e, l)
        \/ StreamEnd(e)

Spec == Init /\ [][Next]_vars

\* One exchange at a time, requests of every kind over a cache filled by
\* blocking responses.
NextAugment ==
    \E e \in {"x1"} :
        \/ RequestMalformed(e)
        \/ \E requestData \in RequestBodies(provider.Reasoning) : Request(e, requestData)
        \/ BackendFails(e)
        \/ \E contentType \in ContentTypes : Responds(e, contentType.v)
        \/ BlockingMalformed(e)
        \/ \E resp \in FillingResponses(provider.Reasoning) : BlockingResponse(e, resp)
        \/ \E body \in StreamBodies(provider.Reasoning) : StreamCopied(e, body)
        \/ StreamStart(e)
        \/ \E l \in QuietLines(provider.Reasoning) : StreamLine(e, l)
        \/ StreamEnd(e)

SpecAugment == Init /\ [][NextAugment]_vars

\* One exchange at a time, streams of every kind.
NextStream ==
    \E e \in {"x1"} :
        \/ RequestMalformed(e)
        \/ \E requestData \in {ChatRequest(<<Assistant(<<ToolCall("tc1")>>)>>)} : Request(e, requestData)
        \/ BackendFails(e)
        \/ \E contentType \in ContentTypes : Responds(e, contentType.v)
        \/ BlockingMalformed(e)
        \/ \E resp \in EmptyResponses(provider.Reasoning) : BlockingResponse(e, resp)
        \/ \E body \in StreamBodies(provider.Reasoning) : StreamCopied(e, body)
        \/ StreamStart(e)
        \/ \E l \in BackendLines(provider.Reasoning) : Scan(e, l)
        \/ StreamEnd(e)

\* The smallest cache: every Put of a new id evicts.
InitStream == Init /\ capacity = 1

SpecStream == InitStream /\ [][NextStream]_vars

\* One exchange at a time, with a client that may go away during the stream.
NextDisconnect ==
    \E e \in {"x1"} :
        \/ RequestMalformed(e)
        \/ \E requestData \in {ChatRequest(<<Assistant(<<ToolCall("tc1")>>)>>)} : Request(e, requestData)
        \/ BackendFails(e)
        \/ \E contentType \in ContentTypes : Responds(e, contentType.v)
        \/ BlockingMalformed(e)
        \/ \E resp \in EmptyResponses(provider.Reasoning) : BlockingResponse(e, resp)
        \/ \E body \in StreamBodies(provider.Reasoning) : StreamCopied(e, body)
        \/ StreamStart(e)
        \/ \E l \in ShortLines(provider.Reasoning) : StreamLine(e, l)
        \/ \E l \in ShortLines(provider.Reasoning) : LineLost(e, l)
        \/ StreamEnd(e)

SpecDisconnect == InitStream /\ [][NextDisconnect]_vars

(***************************************************************************)
(* Two exchanges that run together: the response handlers in the steps     *)
(* another exchange can come between.  A step ends where the handler has   *)
(* written to the client or has called the cache.                          *)
(***************************************************************************)
\* The first step of the blocking handler without its Put.
BlockingExtracted_WithoutPut(e, resp) ==
    /\ exch[e].pc = "blocking"
    /\ SetC(C)
    /\ carried' = IF resp.has
                  THEN Remember(carried, resp.ids, resp.R, cache, cache)
                  ELSE carried
    /\ keyed' = IF resp.has /\ resp.first # ""
                THEN Remember(keyed, {resp.first}, resp.R, cache, cache)
                ELSE keyed
    /\ UpdateExchange(e, [exch[e] EXCEPT
           !.pc = "transformed",
           !.pending = transformReasoningContentToReasoning(resp.body, provider.Reasoning)])
    /\ hist' = [hist EXCEPT ![e] = [has |-> resp.has, R |-> resp.R, ids |-> resp.ids,
                                    seen |-> resp.first # "", last |-> resp.first,
                                    done |-> FALSE]]
    /\ UNCHANGED <<now, seqVars, concVars, provider>>

\* lines 183-198: the body read and decoded, extractAndCacheReasoning and
\* transformReasoningContentToReasoning; nothing written yet
BlockingExtracted(e, resp) ==
    /\ exch[e].pc = "blocking"
    /\ LET c == extractAndCacheReasoning(resp.body, C, provider.Reasoning)
       IN  /\ SetC(c)
           /\ carried' = IF resp.has
                         THEN Remember(carried, resp.ids, resp.R, cache, c.cache)
                         ELSE Remember(carried, {}, "", cache, c.cache)
           /\ keyed' = IF resp.has /\ resp.first # ""
                       THEN Remember(keyed, {resp.first}, resp.R, cache, c.cache)
                       ELSE Remember(keyed, {}, "", cache, c.cache)
    /\ UpdateExchange(e, [exch[e] EXCEPT
           !.pc = "transformed",
           !.pending = transformReasoningContentToReasoning(resp.body, provider.Reasoning)])
    /\ hist' = [hist EXCEPT ![e] = [has |-> resp.has, R |-> resp.R, ids |-> resp.ids,
                                    seen |-> resp.first # "", last |-> resp.first,
                                    done |-> FALSE]]
    /\ UNCHANGED <<now, seqVars, concVars, provider>>

\* lines 200-216: the body encoded; headers, status and body written
BlockingWritten(e) ==
    /\ exch[e].pc = "transformed"
    /\ UpdateExchange(e, [IdleExchange EXCEPT
           !.written = Written("body", 200, exch[e].pending),
           !.nwritten = 1])
    /\ UNCHANGED <<capacity, cache, list, now, seqVars, concVars, provider, hist, carried, keyed>>

\* lines 358-363: a line scanned, transformed, written and flushed
LineWritten(e, l) ==
    /\ exch[e].pc = "streaming"
    /\ exch[e].nlines < MaxLines
    /\ Len(exch[e].reasoningContent) + Len(l.frag) <= MaxReasoningLen
    /\ ~l.line.long
    /\ UpdateExchange(e, [exch[e] EXCEPT
           !.pc = "written",
           !.written = Written("line", 200,
                               WriteLine(transformStreamingLine(ScanLine(l.line), provider.Reasoning))),
           !.nwritten = @ + 1,
           !.nlines = @ + 1,
           !.pending = l])
    /\ UNCHANGED <<capacity, cache, list, now, seqVars, concVars, provider, hist, carried, keyed>>

\* lines 365-386: the line written is looked at: the Put at [DONE], or the
\* accumulation of its delta
HandleLine(e) ==
    /\ exch[e].pc = "written"
    /\ LET x == exch[e]
           l == x.pending
           isDone == l.line.data /\ l.line.kind = "[DONE]"
           decoded == Unmarshal(l.line)
           s == IF l.line.data /\ ~isDone /\ decoded.ok
                THEN processStreamingDelta(decoded.v, x.reasoningContent, x.toolCallID,
                                           provider.Reasoning)
                ELSE [reasoningContent |-> x.reasoningContent, toolCallID |-> x.toolCallID]
           c == IF isDone THEN finalizeStream(C, x.reasoningContent, x.toolCallID) ELSE C
           h == [has |-> hist[e].has \/ l.has,
                 R |-> IF l.has THEN hist[e].R \o l.frag ELSE hist[e].R,
                 ids |-> IF l.seen /\ l.id # "" THEN hist[e].ids \cup {l.id} ELSE hist[e].ids,
                 seen |-> hist[e].seen \/ l.seen,
                 last |-> IF l.seen THEN l.id ELSE hist[e].last,
                 done |-> hist[e].done \/ isDone]
       IN  /\ UpdateExchange(e, [x EXCEPT
                  !.pc = "streaming",
                  !.reasoningContent = s.reasoningContent,
                  !.toolCallID = s.toolCallID,
                  !.pending = JNull])
           /\ SetC(c)
           /\ hist' = [hist EXCEPT ![e] = h]
           /\ carried' = IF isDone /\ h.has
                         THEN Remember(carried, h.ids, h.R, cache, c.cache)
                         ELSE Remember(carried, {}, "", cache, c.cache)
           /\ keyed' = IF isDone /\ h.R # "" /\ h.last # ""
                       THEN Remember(keyed, {h.last}, h.R, cache, c.cache)
                       ELSE Remember(keyed, {}, "", cache, c.cache)
    /\ UNCHANGED <<now, seqVars, provider>>

\* The line handled with the cache's lock taken and released within it.
LineHandled(e) == HandleLine(e) /\ UNCHANGED concVars

\* Requests, responses and lines of the two exchanges: all about tc1, with
\* a response that stores under tc2.
PairRequests == {ChatRequest(<<Assistant(<<ToolCall("tc1")>>)>>)}

PairResponses(field) == {r \in ResponseBodies(field) : r.has /\ r.first # "" /\ r.R # ""}

PairLines(field) ==
    {l \in StreamLines(field) : (l.has /\ l.frag # "") \/ (l.line.data /\ l.line.kind = "[DONE]")}

NextPair ==
    \E e \in Exchanges :
        \/ \E requestData \in PairRequests : Request(e, requestData)
        \/ \E contentType \in {"application/json", "text/event-stream"} : Responds(e, contentType)
        \/ \E resp \in PairResponses(provider.Reasoning) : BlockingExtracted(e, resp)
        \/ BlockingWritten(e)
        \/ StreamStart(e)
        \/ \E l \in PairLines(provider.Reasoning) : LineWritten(e, l)
        \/ LineHandled(e)
        \/ StreamEnd(e)

\* A cache with room for every id: no eviction.
InitPair == Init /\ capacity = MaxCapacity

SpecPair == InitPair /\ [][NextPair]_vars

(***************************************************************************)
(* Two streams and the lock of the cache (part_006): Get and Put start     *)
(* with c.mutex.Lock() and end with the deferred c.mutex.Unlock().  A call *)
(* of the cache is two steps, the Lock and then the update with the        *)
(* Unlock; a handler blocked in Lock takes no step.                        *)
(***************************************************************************)
\* The handler of exchange e as a caller of the cache.
Holder(e) == IF e = "x1" THEN 1 ELSE 2

\* A request has arrived and its handler is at cache.Get (line 266).
AtGet(e) == exch[e].pc = "idle"

\* The stream is at one of its Puts: at [DONE] (lines 368-374) or after the
\* loop (lines 389-394), with an accumulator and an id.
AtPut(e) ==
    /\ \/ /\ exch[e].pc = "written"
          /\ exch[e].pending.line.data
          /\ exch[e].pending.line.kind = "[DONE]"
       \/ exch[e].pc = "ended"
    /\ exch[e].reasoningContent # ""
    /\ exch[e].toolCallID # ""

\* part_006, lines 34 and 46: c.mutex.Lock()
CacheLock(e) ==
    /\ AtGet(e) \/ AtPut(e)
    /\ Lock(Holder(e))
    /\ UNCHANGED <<capacity, cache, list, now, seqVars, pc, call, adapterVars>>

\* part_006, lines 35 and 47: the deferred c.mutex.Unlock()
CacheUnlock(e) ==
    /\ mutex.w = Holder(e)
    /\ mutex' = [mutex EXCEPT !.w = 0]
    /\ UNCHANGED <<pc, call>>

\* The request handled inside Get.
RequestLocked(e, requestData) ==
    /\ CacheUnlock(e)
    /\ HandleRequest(e, requestData)

\* line 358: scanner.Scan() returns false
ScanEnds(e) ==
    /\ exch[e].pc = "streaming"
    /\ UpdateExchange(e, [exch[e] EXCEPT !.pc = "ended"])
    /\ UNCHANGED <<capacity, cache, list, now, seqVars, concVars, provider, hist, carried, keyed>>

\* A Put that returns with the lock held.
LineHandledLocked_KeepsLock(e) ==
    /\ IF AtPut(e) THEN mutex.w = Holder(e) ELSE TRUE
    /\ UNCHANGED concVars
    /\ HandleLine(e)

\* lines 365-386 with the Put of [DONE] inside the lock
LineHandledLocked(e) ==
    /\ IF AtPut(e) THEN CacheUnlock(e) ELSE UNCHANGED concVars
    /\ HandleLine(e)

\* lines 389-399 with the Put after the loop inside the lock
StreamEndLocked(e) ==
    /\ IF AtPut(e) THEN CacheUnlock(e) ELSE UNCHANGED concVars
    /\ EndStream(e, "ended")

NextLock ==
    \E e \in Exchanges :
        \/ CacheLock(e)
        \/ \E requestData \in PairRequests : RequestLocked(e, requestData)
        \/ \E contentType \in {"text/event-stream"} : Responds(e, contentType)
        \/ StreamStart(e)
        \/ \E l \in PairLines(provider.Reasoning) : LineWritten(e, l)
        \/ LineHandledLocked(e)
        \/ ScanEnds(e)
        \/ StreamEndLocked(e)

SpecLock == InitPair /\ [][NextLock]_vars

(***************************************************************************)
(* NewAdapter, lines 41-43, and handleDefault, lines 52-100: the routes.   *)
(***************************************************************************)
\* Request paths: the two chat-completion routes, and paths that only the
\* pattern "/" matches (a pattern without a trailing slash matches its own
\* path only).
ChatPaths == {"/v1/chat/completions", "/chat/completions"}

Paths == ChatPaths \cup {"/v1/models", "/v1/chat/completions/", "/v1/completions", "/"}

\* The routes with the chat handler on every path that begins as a chat path.
Route_ByPrefix(path) ==
    IF \E p \in ChatPaths : Len(path) >= Len(p) /\ SubSeq(path, 1, Len(p)) = p
    THEN "handleChatCompletions"
    ELSE "handleDefault"

\* lines 41-43: the handler the mux gives the path to
Route(path) ==
    IF path \in ChatPaths THEN "handleChatCompletions" ELSE "handleDefault"

\* lines 52-82: handleDefault hands the request's body to the backend as it
\* is, undecoded
Default(e, requestData) ==
    /\ exch[e].pc = "idle"
    /\ UpdateExchange(e, [IdleExchange EXCEPT
           !.pc = "default",
           !.request = requestData,
           !.forwarded = requestData])
    /\ UNCHANGED <<capacity, cache, list, now, seqVars, concVars, provider, hist, carried, keyed>>

\* a.mux.ServeHTTP(w, r), line 49
ServeHTTP(e, path, requestData) ==
    IF Route(path) = "handleChatCompletions"
    THEN Request(e, requestData)
    ELSE Default(e, requestData)

\* lines 82-86: a.client.Do fails: 502
DefaultFails(e) ==
    /\ exch[e].pc = "default"
    /\ UpdateExchange(e, [IdleExchange EXCEPT
           !.written = Written("error", 502, JStr("Failed to proxy request")),
           !.nwritten = 1])
    /\ UNCHANGED <<capacity, cache, list, now, seqVars, concVars, provider, hist, carried, keyed>>

\* lines 87-99: the backend's status, headers and, by io.Copy, its body
DefaultResponds(e, contentType, body) ==
    /\ exch[e].pc = "default"
    /\ UpdateExchange(e, [IdleExchange EXCEPT
           !.written = Written("copy", 200, body),
           !.nwritten = 1])
    /\ UNCHANGED <<capacity, cache, list, now, seqVars, concVars, provider, hist, carried, keyed>>

\* One exchange at a time on every path, blocking responses that fill the
\* cache.
NextRoutes ==
    \E e \in {"x1"} :
        \/ \E path \in Paths : \E requestData \in AskingRequests(provider.Reasoning) :
              ServeHTTP(e, path, requestData)
        \/ BackendFails(e)
        \/ Responds(e, "application/json")
        \/ BlockingMalformed(e)
        \/ \E resp \in FillingResponses(provider.Reasoning) : BlockingResponse(e, resp)
        \/ DefaultFails(e)
        \/ \E contentType \in ContentTypes : \E resp \in FillingResponses(provider.Reasoning) :
              DefaultResponds(e, contentType.v, resp.body)

SpecRoutes == Init /\ [][NextRoutes]_vars

(***************************************************************************)
(* Properties of the cache under sequential use (SpecLRU).                 *)
(***************************************************************************)
Entries(l) == {l[i] : i \in 1 .. Len(l)}

\* The entry of l whose LastUsed is the oldest: the least recently touched.
Oldest(l) == CHOOSE e \in Entries(l) : \A f \in Entries(l) : e.item.LastUsed <= f.item.LastUsed

PutItems == {CacheItem(key, content, 0) : key \in Keys, content \in Contents}

\* C2: with a capacity C >= 0 the cache never holds more than C entries, in
\* the list, in the index, and as Size reports it.
C2_SizeAtMostCapacity ==
    capacity >= 0 =>
        /\ Len(list) <= capacity
        /\ Cardinality(cache) <= capacity
        /\ (ret.op = "Size" => ret.size <= capacity)

\* C2 witness: a Put into a full cache of capacity 2 has run (the clock shows
\* at least three touches) and the cache still holds 2 entries.
C2_Witness ==
    /\ capacity = 2
    /\ ret.op = "Put"
    /\ now >= 3
    /\ Len(list) = 2
    /\ \A i \in 1 .. Len(list) : list[i].item.LastUsed >= 2

\* C3: a Put of an absent key into a full cache removes exactly the entry
\* whose last touch (LastUsed) is the oldest, and keeps every other entry
\* with its item unchanged.
C3_EvictsLeastRecentlyTouched ==
    [][\A item \in PutItems :
        (CallPut(item.ID, item) /\ item.ID \notin cache /\ capacity > 0 /\ Len(list) = capacity)
        => /\ cache' = (cache \ {Oldest(list).key}) \cup {item.ID}
           /\ ListKeys(list') = cache'
           /\ Len(list') = Len(list)
           /\ \A f \in Entries(list) \ {Oldest(list)} : f.item.LastUsed > Oldest(list).item.LastUsed
           /\ \A f \in Entries(list) \ {Oldest(list)} : f \in Entries(list')
      ]_vars

\* C3 witness: capacity 2, tc1 touched at tick 3 after tc2 was put, and the
\* Put of tc3 at tick 4 removed tc2 and kept tc1.
C3_Witness ==
    /\ capacity = 2
    /\ now = 4
    /\ ret.op = "Put"
    /\ ret.key = "tc3"
    /\ cache = {"tc1", "tc3"}
    /\ Len(list) = 2
    /\ list[1].key = "tc3"
    /\ list[2].key = "tc1"
    /\ list[2].item.LastUsed = 3

\* C4: a Put of a present key replaces its item, moves it to the front (the
\* most recently used), and removes or adds no entry; the other entries keep
\* their items and their order.
C4_PutExistingOverwrites ==
    [][\A item \in PutItems :
        (CallPut(item.ID, item) /\ item.ID \in cache)
        => /\ cache' = cache
           /\ Len(list') = Len(list)
           /\ list'[1].key = item.ID
           /\ list'[1].item.ID = item.ID
           /\ list'[1].item.Content = item.Content
           /\ \A i \in 2 .. Len(list') : list'[1].item.LastUsed > list'[i].item.LastUsed
           /\ Tail(list') = RemoveAt(list, IndexOf(list, item.ID))
      ]_vars

\* C4 witness: capacity 2 and two entries; the front entry was touched at
\* tick 2 and again by the Put at tick 3, the other one at tick 1: the Put
\* hit a present key of a full cache.
C4_Witness ==
    /\ capacity = 2
    /\ Len(list) = 2
    /\ now = 3
    /\ ret.op = "Put"
    /\ list[1].key = ret.key
    /\ list[1].item.Content = ret.arg.Content
    /\ list[1].item.LastUsed = 3
    /\ list[2].item.LastUsed = 1

\* C5: a cache of capacity <= 0 holds no entry: Size is 0 and every Get
\* misses.
C5_NonPositiveCapacityStaysEmpty ==
    capacity <= 0 =>
        /\ list = <<>>
        /\ cache = {}
        /\ (ret.op = "Size" => ret.size = 0)
        /\ (ret.op = "Get" => ~ret.found)

\* C5 witness: a Put was the last call on a cache of capacity 0.
C5_Witness ==
    /\ capacity = 0
    /\ ret.op = "Put"
    /\ list = <<>>

\* C6: Clear leaves the cache as NewLRUCache(capacity) builds it (Size 0, the
\* capacity kept), and a key that a Clear removed misses until it is Put
\* again.
C6_ClearEmpties ==
    /\ (ret.op = "Clear" => C = NewLRUCache(capacity) /\ Size(C) = 0)
    /\ gone \cap cache = {}
    /\ gone \cap ListKeys(list) = {}
    /\ (ret.op = "Get" /\ ret.key \in gone => ~ret.found)
    /\ (ret.op = "Put" /\ capacity > 0 => ret.key \in cache /\ list[1].key = ret.key)

\* C6 witness: a Get of a key that a Clear removed has missed.
C6_Witness ==
    /\ ret.op = "Get"
    /\ ret.key \in gone
    /\ ~ret.found

(***************************************************************************)
(* Properties of the cache under concurrent callers (SpecConc).            *)
(***************************************************************************)
InBody(p) == pc[p] # "idle"

Mutating(p) == call[p].op \in {"Get", "Put", "Clear"}

\* C7: a caller inside Get, Put (with its eviction) or Clear is alone inside
\* the cache; whenever no such caller is inside, so at every point another
\* operation can observe, the index and the list hold the same keys, once
\* each, and at most capacity of them (for a capacity >= 0, as in C2); and
\* what Size returns is the length at that moment, at most capacity.
C7_OperationsAreAtomic ==
    /\ \A p, q \in Callers : (p # q /\ InBody(p) /\ Mutating(p)) => ~InBody(q)
    /\ (\A p \in Callers : ~(InBody(p) /\ Mutating(p)))
        => /\ cache = ListKeys(list)
           /\ Cardinality(ListKeys(list)) = Len(list)
           /\ (capacity >= 0 => Len(list) <= capacity)
    /\ \A p \in Callers :
        pc[p] = "runlock"
        => /\ call[p].size = Len(list)
           /\ (capacity >= 0 => call[p].size <= capacity)

\* C7 witness: a Put is in the middle of an eviction, the victim removed from
\* the list and still in the index, while it holds the lock.
C7_Witness ==
    \E p \in Callers :
        /\ pc[p] = "evictLRU:delete"
        /\ call[p].victim \in cache
        /\ call[p].victim \notin ListKeys(list)
        /\ mutex.w = p

(***************************************************************************)
(* Properties of the adapter: request augmentation (SpecAugment), stream   *)
(* accumulation (SpecStream) and the round trip (Spec).                    *)
(***************************************************************************)
\* The content the list l holds under key.
ContentOf(l, key) == l[IndexOf(l, key)].item.Content

\* The step in which exchange e decodes, augments and sends its request.
Sends(e) == exch[e].pc = "idle" /\ exch'[e].pc = "sent"

MessagesOf(data) ==
    IF IsObject(data) /\ IsArray(Field(data, "messages")) THEN Field(data, "messages").v ELSE <<>>

\* The tool calls of a message with role "assistant", none for any other.
ToolCallsOf(msg) ==
    IF IsObject(msg) /\ Field(msg, "role") = JStr("assistant") /\ IsArray(Field(msg, "tool_calls"))
    THEN Field(msg, "tool_calls").v
    ELSE <<>>

\* The id of a tool call, "" when it has none.
IdOf(toolCall) ==
    IF IsObject(toolCall) /\ IsString(Field(toolCall, "id")) THEN Field(toolCall, "id").v ELSE ""

\* The places in the message's tool calls whose id the cache holds.
HitsOf(msg) == {j \in 1 .. Len(ToolCallsOf(msg)) : IdOf(ToolCallsOf(msg)[j]) \in cache}

FirstHitOf(msg) ==
    IdOf(ToolCallsOf(msg)[CHOOSE j \in HitsOf(msg) : \A k \in HitsOf(msg) : j <= k])

\* C8: each message of a request that is sent is forwarded with the reasoning
\* field set to the cached content of the first of its tool-call ids the
\* cache holds, when it has role "assistant" and such an id, and exactly as
\* received otherwise; only those first ids are looked up: they come to the
\* front of the recency order, every other entry stays behind them in the
\* order it had.
C8_FirstHitWins ==
    [][\A e \in Exchanges : Sends(e) =>
          LET received == MessagesOf(exch'[e].request)
              sent == MessagesOf(exch'[e].forwarded)
              lookedUp == {FirstHitOf(received[i]) :
                              i \in {n \in 1 .. Len(received) : HitsOf(received[n]) # {}}}
          IN  /\ Len(sent) = Len(received)
              /\ \A i \in 1 .. Len(received) :
                    sent[i] = IF HitsOf(received[i]) # {}
                              THEN SetField(received[i], provider.Reasoning,
                                            JStr(ContentOf(list, FirstHitOf(received[i]))))
                              ELSE received[i]
              /\ \A k \in cache \ lookedUp :
                    /\ \A h \in lookedUp : IndexOf(list', h) < IndexOf(list', k)
                    /\ \A m \in cache \ lookedUp :
                          IndexOf(list, k) < IndexOf(list, m) => IndexOf(list', k) < IndexOf(list', m)
      ]_vars

\* A request with tool calls tc1 then tc2 was sent while the cache held
\* both with different contents: it carries the content of tc1.
C8_Witness ==
    \E e \in Exchanges :
        /\ exch[e].pc = "sent"
        /\ {"tc1", "tc2"} \subseteq cache
        /\ ContentOf(list, "tc1") # ContentOf(list, "tc2")
        /\ \E i \in 1 .. Len(MessagesOf(exch[e].request)) :
              /\ MessagesOf(exch[e].request)[i] = Assistant(<<ToolCall("tc1"), ToolCall("tc2")>>)
              /\ Field(MessagesOf(exch[e].forwarded)[i], provider.Reasoning)
                    = JStr(ContentOf(list, "tc1"))
              /\ list[1].key = "tc1"

\* C9: the step that augments and sends a request leaves the cache with the
\* same keys and the same content under each key.
C9_AugmentationKeepsContents ==
    [][\A e \in Exchanges : Sends(e) =>
          /\ cache' = cache
          /\ ListKeys(list') = ListKeys(list)
          /\ Len(list') = Len(list)
          /\ \A k \in cache : ContentOf(list', k) = ContentOf(list, k)
      ]_vars

\* A request was sent with the content of the cache's second key injected,
\* the key now being at the front of two.
C9_Witness ==
    \E e \in Exchanges :
        /\ exch[e].pc = "sent"
        /\ Len(list) = 2
        /\ \E i \in 1 .. Len(MessagesOf(exch[e].request)) :
              /\ HitsOf(MessagesOf(exch[e].request)[i]) # {}
              /\ ~Has(MessagesOf(exch[e].request)[i], provider.Reasoning)
              /\ Field(MessagesOf(exch[e].forwarded)[i], provider.Reasoning)
                    = JStr(list[1].item.Content)
              /\ list[1].item.Content # list[2].item.Content

\* The step in which the stream of exchange e relays its [DONE] line.
Done(e) ==
    /\ exch[e].pc = "streaming"
    /\ exch'[e].pc = "streaming"
    /\ exch'[e].nlines = exch[e].nlines + 1
    /\ exch'[e].written = Written("line", 200, DoneLine)

\* C10 as stated: at [DONE], after a reasoning fragment and a tool-call id
\* came, the cache maps the latest id to the fragments joined.
C10_DoneAfterAnyFragmentAndId ==
    [][\A e \in Exchanges : Done(e) /\ hist'[e].has /\ hist'[e].seen =>
          /\ hist'[e].last \in cache'
          /\ ContentOf(list', hist'[e].last) = hist'[e].R
      ]_vars

\* C10: at [DONE], when the fragments that came join to a non-empty text and
\* the latest tool-call id that came is non-empty, the cache maps that id to
\* the fragments joined in arrival order.
C10_DoneCachesAccumulated ==
    [][\A e \in Exchanges : Done(e) /\ hist'[e].R # "" /\ hist'[e].last # "" =>
          /\ hist'[e].last \in cache'
          /\ ContentOf(list', hist'[e].last) = hist'[e].R
      ]_vars

\* Fragments "he" then "llo" with id tc1, then [DONE]: tc1 -> "hello".
C10_Witness ==
    \E e \in Exchanges :
        /\ exch[e].pc = "streaming"
        /\ exch[e].written = Written("line", 200, DoneLine)
        /\ hist[e].R = "hello"
        /\ hist[e].last = "tc1"
        /\ "tc1" \in cache
        /\ ContentOf(list, "tc1") = "hello"

\* A request that is sent carries, in each assistant message, the reasoning
\* h remembers for a tool-call id T of the message when no earlier tool call
\* of the message has a cached id.
RoundTrip(h) ==
    \A e \in Exchanges : Sends(e) =>
        LET received == MessagesOf(exch'[e].request)
            sent == MessagesOf(exch'[e].forwarded)
        IN  \A i \in 1 .. Len(received) :
                LET toolCalls == ToolCallsOf(received[i])
                IN  \A j \in 1 .. Len(toolCalls) :
                        LET T == IdOf(toolCalls[j])
                        IN  (/\ T \in ToolCallIDs
                             /\ h[T].has
                             /\ \A n \in 1 .. (j - 1) : IdOf(toolCalls[n]) \notin cache)
                            => Field(sent[i], provider.Reasoning) = JStr(h[T].R)

\* C1 as stated: the reasoning of the latest response that carried it
\* together with a tool call of id T, T not evicted since, comes back in
\* every later request that asks for T.
C1_RoundTripOfCarried == [][RoundTrip(carried)]_vars

\* C1: the reasoning of the latest response that keyed it on T (a blocking
\* message with string reasoning whose first tool call has the id T, or a
\* stream that reached [DONE] or its end with non-empty reasoning and T the
\* latest non-empty id of a delta's first tool call), T not evicted since,
\* comes back in every later request that asks for T.
C1_RoundTripOfKeyed == [][RoundTrip(keyed)]_vars

\* A request asking for tc2 after malformed tool calls was sent with the
\* non-empty reasoning a response keyed on tc2.
C1_Witness ==
    \E e \in Exchanges :
        /\ exch[e].pc = "sent"
        /\ keyed["tc2"].has
        /\ keyed["tc2"].R # ""
        /\ exch[e].request = ChatRequest(<<Assistant(<<ToolCallNoID, JStr("x"), ToolCall("tc2")>>)>>)
        /\ Field(MessagesOf(exch[e].forwarded)[1], provider.Reasoning) = JStr(keyed["tc2"].R)

(***************************************************************************)
(* Properties of the stream relay (SpecStream).                            *)
(***************************************************************************)
\* choices[0].delta of an event.
DeltaOf(event) == event.v["choices"].v[1].v["delta"]

\* C11: with the provider field reasoning_content, a data line whose delta
\* has the field as text is forwarded as a data line whose delta has the same
\* text under "reasoning", no key reasoning_content and its other keys as
\* they were; the accumulator grows by the text of the original field.
C11_StreamLinesRenamed ==
    [][\A e \in Exchanges : \A l \in StreamLines(provider.Reasoning) :
          (/\ provider.Reasoning = "reasoning_content"
           /\ l.line.data
           /\ l.has
           /\ StreamLine(e, l))
          => LET out == exch'[e].written.v
                 before == DeltaOf(l.line.v)
             IN  /\ exch'[e].written.kind = "line"
                 /\ out.data
                 /\ out.kind = "json"
                 /\ DOMAIN DeltaOf(out.v).v = (DOMAIN before.v \ {"reasoning_content"}) \cup {"reasoning"}
                 /\ DeltaOf(out.v).v["reasoning"] = JStr(l.frag)
                 /\ \A k \in DOMAIN before.v \ {"reasoning_content"} :
                       DeltaOf(out.v).v[k] = before.v[k]
                 /\ exch'[e].reasoningContent = exch[e].reasoningContent \o l.frag
      ]_vars

\* llama.cpp: the line with reasoning_content "llo" was forwarded with
\* reasoning "llo", the accumulator having grown from "he" to "hello".
C11_Witness ==
    \E e \in Exchanges :
        /\ provider = LlamaCpp
        /\ exch[e].pc = "streaming"
        /\ exch[e].written = Written("line", 200,
               Line(TRUE, "json", Event(JObj([reasoning |-> JStr("llo")])), "marshal"))
        /\ exch[e].reasoningContent = "hello"

(***************************************************************************)
(* Properties of the blocking transform (SpecAugment, Spec).               *)
(***************************************************************************)
\* choices[0].message of a response body.
MessageOf(body) == body.v["choices"].v[1].v["message"]

\* C12: a blocking response whose message has tool calls, the first with an
\* id, and the provider's reasoning field with text x leaves the cache
\* mapping that id to x, and is forwarded with x under "reasoning".
C12_BlockingCachesAndRenames ==
    [][\A e \in Exchanges : \A resp \in ResponseBodies(provider.Reasoning) :
          (resp.has /\ resp.first # "" /\ BlockingResponse(e, resp))
          => /\ resp.first \in cache'
             /\ ContentOf(list', resp.first) = resp.R
             /\ exch'[e].written.kind = "body"
             /\ Has(MessageOf(exch'[e].written.v), "reasoning")
             /\ MessageOf(exch'[e].written.v).v["reasoning"] = JStr(resp.R)
      ]_vars

\* C13: a blocking response whose message has the provider's reasoning field
\* with text x and no tool call is forwarded with x under "reasoning" (and
\* no key of the provider's name, when that is another name), the cache
\* unchanged; a response without the field, without a message or without
\* choices is forwarded as it came, the cache unchanged.
C13_RenameWithoutCaching ==
    [][\A e \in Exchanges : \A resp \in ResponseBodies(provider.Reasoning) :
          ((resp.ids = {} \/ ~resp.has) /\ BlockingResponse(e, resp))
          => /\ cache' = cache
             /\ list' = list
             /\ exch'[e].written.kind = "body"
             /\ resp.has =>
                   /\ Has(MessageOf(exch'[e].written.v), "reasoning")
                   /\ MessageOf(exch'[e].written.v).v["reasoning"] = JStr(resp.R)
                   /\ provider.Reasoning # "reasoning" =>
                         ~Has(MessageOf(exch'[e].written.v), provider.Reasoning)
             /\ ~resp.has => exch'[e].written.v = resp.body
      ]_vars

(***************************************************************************)
(* Properties of the stream relay: lines that carry no event (SpecStream). *)
(***************************************************************************)
\* The exchange after it relayed `line` and nothing else happened to it.
Relayed(x, line) ==
    [x EXCEPT !.written = Written("line", 200, line), !.nwritten = @ + 1, !.nlines = @ + 1]

\* C14: a data line whose payload does not decode is forwarded with the text
\* it came with;
\* the stream goes on with the accumulator, the captured id and the cache it
\* had, so every later line is handled as if this one had not come.
C14_UndecodableLinePassesThrough ==
    [][\A e \in Exchanges : \A l \in StreamLines(provider.Reasoning) :
          (l.line.data /\ l.line.kind = "text" /\ StreamLine(e, l))
          => /\ exch'[e] = Relayed(exch[e], WriteLine(l.line))
             /\ ScanLine(exch'[e].written.v) = ScanLine(l.line)
             /\ exch'[e].pc = "streaming"
             /\ exch'[e].reasoningContent = exch[e].reasoningContent
             /\ exch'[e].toolCallID = exch[e].toolCallID
             /\ cache' = cache
             /\ list' = list
      ]_vars

\* The line "data: {not json" was forwarded as the second line of a stream
\* that had accumulated "he" for tc1, and the stream is still running.
C14_Witness ==
    \E e \in Exchanges :
        /\ exch[e].pc = "streaming"
        /\ exch[e].written = Written("line", 200, Line(TRUE, "text", JStr("{not json"), "backend"))
        /\ exch[e].nlines = 2
        /\ exch[e].reasoningContent = "he"
        /\ exch[e].toolCallID = "tc1"

\* C15 as stated: a line that does not start with "data: " (a comment, a
\* blank line, JSON without the prefix) is forwarded with the very bytes the
\* backend sent, and changes neither the accumulator, the captured id nor
\* the cache.
C15_NonDataLineByteForByte ==
    [][\A e \in Exchanges : \A l \in StreamLines(provider.Reasoning) :
          (~l.line.data /\ StreamLine(e, l))
          => /\ exch'[e].written = Written("line", 200, l.line)
             /\ exch'[e].reasoningContent = exch[e].reasoningContent
             /\ exch'[e].toolCallID = exch[e].toolCallID
             /\ cache' = cache
             /\ list' = list
      ]_vars

\* C15: a line that does not start with "data: " is forwarded with the text
\* the backend sent, ended by "\n" whatever ended it at the backend, and
\* changes neither the accumulator, the captured id nor the cache.
C15_NonDataLineTextKept ==
    [][\A e \in Exchanges : \A l \in StreamLines(provider.Reasoning) :
          (~l.line.data /\ StreamLine(e, l))
          => /\ exch'[e] = Relayed(exch[e], WriteLine(l.line))
             /\ ScanLine(exch'[e].written.v) = ScanLine(l.line)
             /\ exch'[e].written.v.eol = "\n"
             /\ exch'[e].reasoningContent = exch[e].reasoningContent
             /\ exch'[e].toolCallID = exch[e].toolCallID
             /\ cache' = cache
             /\ list' = list
      ]_vars

\* The comment line ": keep-alive" was forwarded after "he" and tc1 had come,
\* both kept.
C15_Witness ==
    \E e \in Exchanges :
        /\ exch[e].pc = "streaming"
        /\ exch[e].written = Written("line", 200, Line(FALSE, "text", JStr(": keep-alive"), "backend"))
        /\ exch[e].nlines = 2
        /\ exch[e].reasoningContent = "he"
        /\ exch[e].toolCallID = "tc1"

\* C16: when the stream ends and no [DONE] line has come, the end stores as
\* [DONE] does: with a non-empty accumulator and a non-empty captured id the
\* cache maps the id to the accumulated text afterwards, and otherwise the
\* cache is left as it was.
C16_EndOfStreamFinalizes ==
    [][\A e \in Exchanges :
          (~hist[e].done /\ StreamEnd(e))
          => LET x == exch[e]
             IN  /\ exch'[e].pc = "idle"
                 /\ (x.reasoningContent # "" /\ x.toolCallID # "")
                    => /\ x.toolCallID \in cache'
                       /\ ContentOf(list', x.toolCallID) = x.reasoningContent
                       /\ list'[1].key = x.toolCallID
                       /\ x.reasoningContent = hist[e].R
                       /\ x.toolCallID = hist[e].last
                 /\ (x.reasoningContent = "" \/ x.toolCallID = "")
                    => cache' = cache /\ list' = list
      ]_vars

\* A stream of "he" with tc1 and "llo" has ended without [DONE], and the
\* cache maps tc1 to "hello".
C16_Witness ==
    \E e \in Exchanges :
        /\ exch[e].pc = "idle"
        /\ ~hist[e].done
        /\ hist[e].R = "hello"
        /\ hist[e].last = "tc1"
        /\ "tc1" \in cache
        /\ ContentOf(list, "tc1") = "hello"

(***************************************************************************)
(* Properties of the dispatch on the response (Spec).                      *)
(***************************************************************************)
\* C17: a response whose Content-Type contains text/event-stream goes to the
\* streaming transformer and every other response to the blocking one; an
\* exchange given to one of them is written by that one only (lines or a
\* copy of the stream; a body or the error of its decoding) until it is over.
C17_DispatchOnContentType ==
    [][\A e \in Exchanges :
          /\ \A contentType \in ContentTypes :
                Responds(e, contentType.v)
                => /\ exch'[e].pc = IF contentType.stream THEN "stream" ELSE "blocking"
                   /\ exch'[e].written = NothingWritten
                   /\ cache' = cache
                   /\ list' = list
          /\ exch[e].pc = "sent"
             => exch'[e] = exch[e] \/ exch'[e].pc \in {"stream", "blocking"}
                \/ (exch'[e].pc = "idle" /\ exch'[e].written.status = 502)
          /\ exch[e].pc = "blocking"
             => \/ exch'[e] = exch[e]
                \/ exch'[e].pc = "idle" /\ exch'[e].written.kind \in {"body", "error"}
          /\ exch[e].pc = "stream"
             => \/ exch'[e] = exch[e]
                \/ exch'[e].pc = "streaming" /\ exch'[e].written = NothingWritten
                \/ exch'[e].pc = "idle" /\ exch'[e].written.kind = "copy"
          /\ exch[e].pc = "streaming"
             => \/ exch'[e] = exch[e]
                \/ exch'[e].pc = "streaming" /\ exch'[e].written.kind = "line"
                \/ exch'[e].pc = "idle" /\ exch'[e].written = NothingWritten
      ]_vars

\* A response is with the blocking transformer after an earlier one went to
\* the streaming transformer, which stored the "he" and "he" it accumulated.
C17_Witness ==
    \E e \in Exchanges :
        /\ exch[e].pc = "blocking"
        /\ exch[e].written = NothingWritten
        /\ "tc1" \in cache
        /\ ContentOf(list, "tc1") = "hehe"

(***************************************************************************)
(* Properties of the effort remapping (SpecAugment).                       *)
(***************************************************************************)
\* The request body has a value at reasoning.effort.
CarriesEffort(data) ==
    /\ IsObject(data)
    /\ IsObject(Field(data, "reasoning"))
    /\ Has(Field(data, "reasoning"), "effort")

EffortOf(data) == Field(data, "reasoning").v["effort"]

\* C18: with the llama.cpp provider a request that has a value at
\* reasoning.effort is sent with that value at
\* chat_template_kwargs.reasoning_effort, beside what chat_template_kwargs
\* held, and without the key effort under reasoning.
C18_EffortRelocated ==
    [][\A e \in Exchanges :
          (provider = LlamaCpp /\ Sends(e) /\ CarriesEffort(exch'[e].request))
          => LET sent == exch'[e].forwarded
                 kwargs == Field(sent, "chat_template_kwargs")
             IN  /\ IsObject(kwargs)
                 /\ Has(kwargs, "reasoning_effort")
                 /\ kwargs.v["reasoning_effort"] = EffortOf(exch'[e].request)
                 /\ ~CarriesEffort(sent)
      ]_vars

\* C19: with the LM Studio provider a request that has the value v at
\* reasoning.effort is sent with v in the top-level field reasoning_effort.
C19_EffortAtTopLevel ==
    [][\A e \in Exchanges :
          (provider = LMStudio /\ Sends(e) /\ CarriesEffort(exch'[e].request))
          => /\ Has(exch'[e].forwarded, "reasoning_effort")
             /\ exch'[e].forwarded.v["reasoning_effort"] = EffortOf(exch'[e].request)
      ]_vars

(***************************************************************************)
(* Properties of the decode failures (SpecAugment).                        *)
(***************************************************************************)
ServerError(written) == written.kind = "error" /\ written.status \in 500 .. 599

\* The lists hold the same keys with the same contents, in whatever order.
SameEntries(l1, l2) ==
    /\ Len(l1) = Len(l2)
    /\ ListKeys(l1) = ListKeys(l2)
    /\ \A k \in ListKeys(l1) : ContentOf(l1, k) = ContentOf(l2, k)

\* C20 as stated: a request body that does not decode is answered 5xx with
\* nothing sent to the backend, a blocking response body that does not
\* decode is answered 5xx, and either way the cache is, in keys, contents and
\* recency order, as the exchange found it.
C20_DecodeFailureLeavesCacheAsFound ==
    [][\A e \in Exchanges :
          /\ RequestMalformed(e)
             => /\ ServerError(exch'[e].written)
                /\ exch'[e].pc = "idle" /\ exch'[e].forwarded = JNull
                /\ cache' = cache /\ list' = list
          /\ BlockingMalformed(e)
             => /\ ServerError(exch'[e].written)
                /\ cache' = ListKeys(exch[e].listAtStart)
                /\ list' = exch[e].listAtStart
      ]_vars

\* C20: a request body that does not decode is answered 5xx with nothing
\* sent to the backend and the cache untouched; a blocking response body
\* that does not decode is answered 5xx, the failed decode touches nothing,
\* and the cache has the keys and contents the exchange found, in an order
\* that the exchange's request may have changed.
C20_DecodeFailureKeepsEntries ==
    [][\A e \in Exchanges :
          /\ RequestMalformed(e)
             => /\ ServerError(exch'[e].written)
                /\ exch'[e].pc = "idle" /\ exch'[e].forwarded = JNull
                /\ cache' = cache /\ list' = list
          /\ BlockingMalformed(e)
             => /\ ServerError(exch'[e].written)
                /\ exch'[e].pc = "idle"
                /\ cache' = cache /\ list' = list
                /\ cache' = ListKeys(exch[e].listAtStart)
                /\ SameEntries(list', exch[e].listAtStart)
      ]_vars

\* The response to a request did not decode and was answered 500, with two
\* entries in the cache.
C20_Witness ==
    \E e \in Exchanges :
        /\ exch[e].pc = "idle"
        /\ exch[e].written = Written("error", 500, JStr("Failed to unmarshal response"))
        /\ Len(list) = 2

(***************************************************************************)
(* Properties of the routes (SpecRoutes).                                  *)
(***************************************************************************)
\* C21: an exchange on a path other than the two chat-completion paths
\* sends its body as it came, neither reads nor writes the cache (keys,
\* contents and recency stay), and hands the client the backend's body as it
\* is, whatever the content type and whatever reasoning and tool calls it has.
C21_OtherPathsPassThrough ==
    [][\A e \in Exchanges :
          /\ \A path \in Paths \ ChatPaths : \A requestData \in AskingRequests(provider.Reasoning) :
                ServeHTTP(e, path, requestData)
                => /\ exch'[e].pc = "default"
                   /\ exch'[e].forwarded = requestData
                   /\ cache' = cache /\ list' = list
          /\ \A contentType \in ContentTypes : \A resp \in FillingResponses(provider.Reasoning) :
                DefaultResponds(e, contentType.v, resp.body)
                => /\ exch'[e].written.v = resp.body
                   /\ cache' = cache /\ list' = list
          /\ exch[e].pc = "default"
             => /\ cache' = cache /\ list' = list
                /\ exch'[e] = exch[e] \/ exch'[e].pc = "idle"
      ]_vars

\* With tc1 and its reasoning in the cache, a request naming tc1 went out on
\* another path without the reasoning.
C21_Witness ==
    \E e \in Exchanges :
        /\ exch[e].pc = "default"
        /\ "tc1" \in cache
        /\ exch[e].forwarded = ChatRequest(<<Assistant(<<ToolCall("tc1")>>)>>)

(***************************************************************************)
(* Properties of the presets and of the blocking store (Spec, SpecAugment).*)
(***************************************************************************)
\* C24: with a provider whose reasoning field is already "reasoning", the
\* message of a blocking response and the delta of a stream line that carry
\* reasoning text are forwarded with that text under "reasoning".
C24_CanonicalFieldKept ==
    [][\A e \in Exchanges :
          /\ \A resp \in ResponseBodies(provider.Reasoning) :
                (provider.Reasoning = "reasoning" /\ resp.has /\ BlockingResponse(e, resp))
                => /\ Has(MessageOf(exch'[e].written.v), "reasoning")
                   /\ MessageOf(exch'[e].written.v).v["reasoning"] = JStr(resp.R)
          /\ \A l \in StreamLines(provider.Reasoning) :
                (provider.Reasoning = "reasoning" /\ l.line.data /\ l.has /\ StreamLine(e, l))
                => /\ Has(DeltaOf(exch'[e].written.v.v), "reasoning")
                   /\ DeltaOf(exch'[e].written.v.v).v["reasoning"] = JStr(l.frag)
      ]_vars

\* C25: a blocking response whose message has tool calls and the empty
\* string as its reasoning creates and overwrites no cache entry.
C25_EmptyReasoningNotStored ==
    [][\A e \in Exchanges : \A resp \in ResponseBodies(provider.Reasoning) :
          (resp.has /\ resp.R = "" /\ resp.ids # {} /\ BlockingResponse(e, resp))
          => cache' = cache /\ list' = list
      ]_vars

\* C26: a request that has a value at reasoning.effort is sent with that
\* value at the provider's effort path or still at reasoning.effort.
C26_EffortNeverLost ==
    [][\A e \in Exchanges :
          (Sends(e) /\ CarriesEffort(exch'[e].request))
          => LET sent == exch'[e].forwarded
                 v == EffortOf(exch'[e].request)
             IN  \/ getNestedField(sent, provider.ReasoningEffort) = v
                 \/ CarriesEffort(sent) /\ EffortOf(sent) = v
      ]_vars

(***************************************************************************)
(* Properties of the stream's use of the cache (SpecStream).               *)
(***************************************************************************)
IsDone(l) == l.line.data /\ l.line.kind = "[DONE]"

\* The step in which the stream of exchange e handles a line.
HandlesLine(e) ==
    /\ exch[e].pc = "streaming"
    /\ exch'[e].pc = "streaming"
    /\ exch'[e].nlines = exch[e].nlines + 1

\* The step in which the stream of exchange e is over.
Ends(e) == exch[e].pc = "streaming" /\ exch'[e].pc = "idle"

\* C29: a stream leaves the cache alone when it starts and at every line
\* that is not [DONE]; at [DONE] and at the end of input it leaves the cache
\* alone when the accumulator is empty or the captured id is the empty
\* string, and otherwise does the one Put of the id and the accumulator.
C29_StreamStoresOnlyAtFinalize ==
    [][\A e \in Exchanges :
          LET x == exch[e]
              unset == x.reasoningContent = "" \/ x.toolCallID = ""
              untouched == cache' = cache /\ list' = list
              stored == /\ cache' \subseteq cache \cup {x.toolCallID}
                        /\ list'[1].key = x.toolCallID
                        /\ list'[1].item.Content = x.reasoningContent
          IN  /\ StreamStart(e) => untouched
              /\ (HandlesLine(e) /\ ~Done(e)) => untouched
              /\ (Done(e) \/ Ends(e))
                 => /\ unset => untouched
                    /\ ~unset => stored
      ]_vars

\* A stream that accumulated "llo" and captured no id has reached [DONE],
\* and the cache is empty.
C29_Witness ==
    \E e \in Exchanges :
        /\ exch[e].pc = "streaming"
        /\ exch[e].written = Written("line", 200, DoneLine)
        /\ exch[e].reasoningContent = "llo"
        /\ exch[e].toolCallID = ""
        /\ cache = {}

\* C27: every line the backend sends, whatever its length, is answered by
\* one write of that line (its reasoning field renamed when it has one)
\* before the next line is read: the stream goes on, having written one line
\* more.
C27_OneLineInOneLineOut ==
    [][\A e \in Exchanges : \A l \in BackendLines(provider.Reasoning) :
          Scan(e, l)
          => /\ exch'[e].pc = "streaming"
             /\ exch'[e].nwritten = exch[e].nwritten + 1
             /\ exch'[e].nlines = exch[e].nlines + 1
             /\ exch'[e].written.kind = "line"
             /\ exch'[e].written.v.data = l.line.data
             /\ exch'[e].written.v.kind = l.line.kind
             /\ exch'[e].written.v.long = l.line.long
      ]_vars

(***************************************************************************)
(* Properties of exchanges that run together (SpecPair).                   *)
(***************************************************************************)
\* The reasoning the request sent by e carries in its one assistant message.
InjectedInto(e) == Field(MessagesOf(exch'[e].forwarded)[1], provider.Reasoning)

\* The [DONE] line is the last thing the client of e has received.
ClientHasDone(e) ==
    /\ exch[e].pc \in {"written", "streaming"}
    /\ exch[e].written = Written("line", 200, DoneLine)

\* C22: once the client of a stream that carried reasoning and the id tc1
\* has its [DONE] line, a request for tc1 in the other exchange is sent with
\* the stream's reasoning (no response having stored other text for tc1).
C22_FollowUpAfterDone ==
    [][\A e1, e2 \in Exchanges :
          (/\ e1 # e2
           /\ ClientHasDone(e1)
           /\ hist[e1].R # ""
           /\ hist[e1].last = "tc1"
           /\ ~(keyed["tc1"].has /\ keyed["tc1"].R # hist[e1].R)
           /\ Sends(e2))
          => InjectedInto(e2) = JStr(hist[e1].R)
      ]_vars

\* The client of e has the body of a blocking response.
ClientHasBody(e) == exch[e].pc = "idle" /\ exch[e].written.kind = "body"

\* C23: when the body of a blocking response with reasoning and a first
\* tool-call id is written, the Put for that id has been done, and a request
\* for tc1 that the other exchange sends once the client has the body
\* carries what the cache holds for tc1, which is the response's reasoning
\* unless a later response stored other text.
C23_PutBeforeWrite ==
    [][\A e1, e2 \in Exchanges :
          /\ (BlockingWritten(e1) /\ hist[e1].has /\ hist[e1].last # "")
             => /\ hist[e1].last \in cache
                /\ keyed[hist[e1].last].has
                /\ ContentOf(list, hist[e1].last) = keyed[hist[e1].last].R
          /\ (/\ e1 # e2
              /\ ClientHasBody(e1)
              /\ hist[e1].has
              /\ hist[e1].last = "tc1"
              /\ Sends(e2))
             => /\ "tc1" \in cache
                /\ keyed["tc1"].has
                /\ InjectedInto(e2) = JStr(keyed["tc1"].R)
      ]_vars

\* The client of one exchange has the body of a response that stored "he"
\* under tc1, and the other exchange has sent a request for tc1 with "he".
C23_Witness ==
    \E e1, e2 \in Exchanges :
        /\ e1 # e2
        /\ ClientHasBody(e1)
        /\ hist[e1].R = "he"
        /\ hist[e1].last = "tc1"
        /\ exch[e2].pc = "sent"
        /\ Field(MessagesOf(exch[e2].forwarded)[1], provider.Reasoning) = JStr("he")

\* C28: the Put at the end of input of a stream whose last line was [DONE]
\* (accumulator and id as they were at [DONE]) leaves keys, contents and
\* recency order of the cache as they are, whatever the other exchange has
\* done since the [DONE].
C28_SecondFinalizeChangesNothing ==
    [][\A e \in Exchanges :
          (Ends(e) /\ hist[e].done /\ exch[e].written = Written("line", 200, DoneLine))
          => cache' = cache /\ list' = list
      ]_vars

\* The step in which the stream of e does its Put.
Finalizes(e) ==
    /\ \/ exch[e].pc = "written" /\ IsDone(exch[e].pending) /\ exch'[e].pc = "streaming"
       \/ Ends(e)
    /\ exch[e].reasoningContent # ""
    /\ exch[e].toolCallID # ""

\* C30: the accumulator and the captured id of a stream are those of its
\* own lines at every moment, and the Put of a stream stores its own
\* fragments joined under its own id, whatever the other stream does; the
\* other steps of a stream leave the cache alone.
C30_StreamStateIsLocal ==
    [][\A e \in Exchanges :
          /\ exch'[e].pc \in {"streaming", "written"}
             => /\ exch'[e].reasoningContent = hist'[e].R
                /\ exch'[e].toolCallID = hist'[e].last
          /\ Finalizes(e)
             => /\ hist[e].last \in cache'
                /\ list'[1].key = hist[e].last
                /\ list'[1].item.Content = hist[e].R
                /\ \A k \in cache' \ {hist[e].last} : k \in cache /\ ContentOf(list', k) = ContentOf(list, k)
      ]_vars

\* Both streams captured tc1, one accumulated "he" and the other "hello";
\* the second has reached its [DONE] and the cache maps tc1 to "hello".
C30_Witness ==
    \E e1, e2 \in Exchanges :
        /\ e1 # e2
        /\ exch[e1].pc = "streaming" /\ exch[e1].reasoningContent = "he" /\ exch[e1].toolCallID = "tc1"
        /\ exch[e2].pc = "streaming" /\ exch[e2].reasoningContent = "hello" /\ exch[e2].toolCallID = "tc1"
        /\ hist[e1].done /\ hist[e2].done
        /\ list[1].key = "tc1"
        /\ list[1].item.Content = "hello"

(***************************************************************************)
(* Properties of Get and of LastUsed (SpecLRU).                            *)
(***************************************************************************)
\* C33: a Get of a key that is not in the cache returns the zero item and
\* not-found, and leaves the keys, every entry with its content and its
\* LastUsed, the recency order and the clock as they were.
C33_MissHasNoEffect ==
    [][\A key \in Keys :
          (CallGet(key) /\ key \notin cache)
          => /\ ~ret'.found
             /\ ret'.item = ZeroItem
             /\ cache' = cache
             /\ list' = list
             /\ capacity' = capacity
             /\ now' = now
      ]_vars

\* A Get of a key that is not among the two entries of the cache has missed.
C33_Witness ==
    /\ ret.op = "Get"
    /\ ~ret.found
    /\ ret.key \notin cache
    /\ Len(list) = 2

\* C37: a Get that hits stamps the entry with the time of the Get, later
\* than the stamp the entry had (the time of the Get or Put that touched it
\* last), and returns the item so stamped; a Put that stores stamps the
\* entry with the time of the Put.
C37_LastUsedRefreshed ==
    [][/\ \A key \in Keys :
             (CallGet(key) /\ key \in cache)
             => /\ ret'.found
                /\ now' = now + 1
                /\ ret'.item.LastUsed = now'
                /\ ret'.item.LastUsed > list[IndexOf(list, key)].item.LastUsed
                /\ list'[1] = cacheEntry(key, ret'.item)
                /\ ret'.item.Content = list[IndexOf(list, key)].item.Content
       /\ \A item \in PutItems :
             (CallPut(item.ID, item) /\ capacity > 0)
             => /\ now' = now + 1
                /\ list'[1].key = item.ID
                /\ list'[1].item.LastUsed = now'
      ]_vars

\* After a Put at time 1 and a hit at time 2, a Get has hit the one entry
\* at time 3 and returned the item with LastUsed 3.
C37_Witness ==
    /\ ret.op = "Get"
    /\ ret.found
    /\ now = 3
    /\ ret.item.LastUsed = 3
    /\ Len(list) = 1
    /\ list[1].item = ret.item

(***************************************************************************)
(* Properties of the effort remapping when there is nothing to move        *)
(* (SpecAugment).                                                          *)
(***************************************************************************)
\* C34: a request without a value at reasoning.effort, and any request when
\* the provider's effort path is reasoning.effort, is sent with every field
\* but messages as it came: reasoning with its effort, chat_template_kwargs
\* and the rest, no key added and none removed.
C34_NothingToRemap ==
    [][\A e \in Exchanges :
          (Sends(e) /\ (~CarriesEffort(exch'[e].request)
                        \/ provider.ReasoningEffort = CanonicalEffort))
          => LET received == exch'[e].request
                 sent == exch'[e].forwarded
             IN  /\ DOMAIN sent.v = DOMAIN received.v
                 /\ \A k \in DOMAIN received.v \ {"messages"} : sent.v[k] = received.v[k]
                 /\ CarriesEffort(sent) = CarriesEffort(received)
                 /\ CarriesEffort(received) => EffortOf(sent) = EffortOf(received)
      ]_vars

\* With the LM Studio provider a request with the effort "low" was sent with
\* reasoning.effort "low" and its summary.
C34_Witness ==
    \E e \in Exchanges :
        /\ provider = LMStudio
        /\ exch[e].pc = "sent"
        /\ CarriesEffort(exch[e].request)
        /\ Field(exch[e].forwarded, "reasoning") = JObj([effort |-> JStr("low"), summary |-> JStr("auto")])

\* C35: with the llama.cpp provider and a request that has an effort: when
\* chat_template_kwargs holds a value that is not a record, setting
\* chat_template_kwargs.reasoning_effort leaves the request as it is, and
\* the request is sent with that value and without a new key; when
\* chat_template_kwargs is missing it is created with reasoning_effort as
\* its only key; when it is a record the key is set beside the others.
\* Likewise on a path of three keys.
C35_SetPathBestEffort ==
    [][\A e \in Exchanges :
          (provider = LlamaCpp /\ Sends(e) /\ CarriesEffort(exch'[e].request))
          => LET received == exch'[e].request
                 sent == exch'[e].forwarded
                 v == EffortOf(received)
                 path == <<"chat_template_kwargs", "reasoning_effort">>
                 old == Field(received, "chat_template_kwargs")
                 set == setNestedField(received, path, v)
             IN  /\ (Has(received, "chat_template_kwargs") /\ ~IsObject(old))
                    => /\ set = received
                       /\ DOMAIN sent.v = DOMAIN received.v
                       /\ sent.v["chat_template_kwargs"] = old
                 /\ ~Has(received, "chat_template_kwargs")
                    => /\ set = SetField(received, "chat_template_kwargs", JObj([reasoning_effort |-> v]))
                       /\ DOMAIN sent.v = DOMAIN received.v \cup {"chat_template_kwargs"}
                       /\ sent.v["chat_template_kwargs"] = JObj([reasoning_effort |-> v])
                 /\ IsObject(old)
                    => /\ set = SetField(received, "chat_template_kwargs", SetField(old, "reasoning_effort", v))
                       /\ sent.v["chat_template_kwargs"] = SetField(old, "reasoning_effort", v)
                 /\ setNestedField(JObj(NoKeys), <<"a", "b", "c">>, v)
                       = JObj([a |-> JObj([b |-> JObj([c |-> v])])])
                 /\ setNestedField(JObj([a |-> JObj([b |-> JStr("x")])]), <<"a", "b", "c">>, v)
                       = JObj([a |-> JObj([b |-> JStr("x")])])
                 /\ setNestedField(JObj([a |-> JStr("x")]), <<"a">>, v) = JObj([a |-> v])
      ]_vars

\* With the llama.cpp provider a request with an effort and the string
\* "none" as chat_template_kwargs was sent with that string.
C35_Witness ==
    \E e \in Exchanges :
        /\ provider = LlamaCpp
        /\ exch[e].pc = "sent"
        /\ CarriesEffort(exch[e].request)
        /\ Field(exch[e].request, "chat_template_kwargs") = JStr("none")
        /\ Field(exch[e].forwarded, "chat_template_kwargs") = JStr("none")

(***************************************************************************)
(* Properties of the stream copied through (SpecStream).                   *)
(***************************************************************************)
\* C36: when the writer cannot flush, the client is given the bytes of the
\* backend's stream as they are (the reasoning field under the provider's
\* name, line ends and long lines kept), the exchange is over with that, and
\* the cache is as it was: nothing stored.
C36_CopiedUntransformed ==
    [][\A e \in Exchanges :
          /\ \A body \in StreamBodies(provider.Reasoning) :
                StreamCopied(e, body)
                => /\ exch'[e].written = Written("copy", 200, Body(body))
                   /\ exch'[e].pc = "idle"
                   /\ cache' = cache
                   /\ list' = list
          /\ (exch[e].pc = "stream" /\ exch'[e].written.kind = "copy")
             => /\ exch'[e].written.v \in {Body(body) : body \in StreamBodies(provider.Reasoning)}
                /\ exch'[e].pc = "idle"
                /\ cache' = cache
                /\ list' = list
      ]_vars

\* With the llama.cpp provider a stream with reasoning_content "he" and the
\* id tc1 was copied through, and the cache is empty.
C36_Witness ==
    \E e \in Exchanges :
        /\ provider = LlamaCpp
        /\ exch[e].pc = "idle"
        /\ exch[e].written.kind = "copy"
        /\ exch[e].written.v.lines[2] = DoneLine
        /\ DeltaOf(exch[e].written.v.lines[1].v).v["reasoning_content"] = JStr("he")
        /\ cache = {}

(***************************************************************************)
(* Properties of a stream whose client goes away (SpecDisconnect).         *)
(***************************************************************************)
\* The last Write of the stream of e to its client failed.
ClientGone(e) == exch[e].pc = "streaming" /\ exch[e].written.kind = "failed"

\* C32 as stated: once a Write to the client has failed, the stream reads no
\* further line of the backend: its next step is the end of the exchange,
\* with the cache as it is.
C32_RelayEndsAtFailedWrite ==
    [][\A e \in Exchanges :
          ClientGone(e) => /\ ~HandlesLine(e)
                           /\ cache' = cache
                           /\ list' = list
      ]_vars

(***************************************************************************)
(* Properties of the cache's lock under two streams (SpecLock).            *)
(***************************************************************************)
\* The stream of e waits for its next line.
Stalled(e) == exch[e].pc = "streaming"

\* C31: a stream that waits for its next line does not hold the cache's
\* lock; while it waits, another exchange that is at a call of the cache can
\* take its next step; the lock is held only by a handler that is inside
\* Get or Put, whose next step is the update and gives the lock back, and
\* while it is held no other exchange changes the cache.
C31_StalledStreamHoldsNoLock ==
    [][\A e \in Exchanges :
          /\ Stalled(e) => mutex.w # Holder(e)
          /\ \A f \in Exchanges \ {e} :
                Stalled(e) /\ (AtGet(f) \/ AtPut(f))
                => \/ mutex.w = 0 /\ ENABLED CacheLock(f)
                   \/ mutex.w = Holder(f)
          /\ mutex.w = Holder(e)
             => /\ AtGet(e) \/ AtPut(e)
                /\ exch'[e] # exch[e] => mutex'.w = 0
                /\ exch'[e] = exch[e] => cache' = cache /\ list' = list /\ mutex' = mutex
          /\ Stalled(e)' => mutex'.w # Holder(e)
      ]_vars

\* The stream of x1 waits for its third line with "he" and tc1 gathered,
\* while x2 is inside a call of the cache.
C31_Witness ==
    /\ Stalled("x1")
    /\ exch["x1"].nlines = 2
    /\ exch["x1"].reasoningContent = "he"
    /\ exch["x1"].toolCallID = "tc1"
    /\ mutex.w = Holder("x2")
    /\ AtPut("x2")

====
